---- MODULE Spec2Model ----
(***************************************************************************)
(* A model of the runner manager of github-runner-operator:                *)
(*   - the reactive consumer (reactive/consumer.py),                       *)
(*   - the HTTP control surface and its lock (http_server.py),             *)
(*   - the base-mode reconcile of the scaler (manager/runner_scaler.py),   *)
(*     the cloud side of cleanup and delete                                *)
(*     (openstack_cloud/openstack_runner_manager.py) and the runner        *)
(*     lifecycle manager that sits between the two (RunnerManager).        *)
(* Each subsystem has its own specification over the shared variables.     *)
(***************************************************************************)
EXTENDS Integers, Sequences, FiniteSets, Bags, TLC

VARIABLES
    \* ---- reactive consumer (consumer.py) ----
    queue,      \* messages waiting in the broker, oldest first
    handled,    \* one record per message received by this consume() call
    cpc,        \* position of consume()
    polls,      \* iterations of the for loop of _spawn_runner done so far
    creates,    \* number of create_runners calls made by this consume() call
    supported,  \* supported_labels argument of consume()
    \* ---- HTTP control surface (http_server.py) ----
    lockSet,    \* the module global _lock is not None
    locked,     \* the threading.Lock is held
    hpc,        \* position of each request thread in flush_runner
    status,     \* status code of the last response of each request thread
    lockState,  \* lock_state each request thread logged before acquiring
    rpc,        \* position of the control loop that reconciles under the lock
    \* ---- runner manager, cloud and platform ----
    cloud,      \* instances in the cloud: id -> outcome of its health check
    platform,   \* identities registered with the platform
    expected,   \* base_quantity
    server_config, \* OpenStackRunnerManagerConfig.server_config: "config" or "none"
    mpc,        \* position of the manager
    ret,        \* who called create_runners: "reconcile" or "direct"
    listed,     \* instances and health check outcomes seen by the cloud cleanup
    nonRequested, \* non_requested identities of the platform health response
    todo,       \* identities the current loop has still to visit
    cloudDel,   \* bag of delete_instance calls since the operation began
    platDel,    \* bag of platform delete_runner calls since the operation began
    pulled,     \* identities pull_runner_metrics was called for
    sshFailed,  \* identities whose SSH connection failed during a delete
    failed,     \* identities for which a delete request failed
    trace,      \* steps of _reconcile_non_reactive taken in this cycle
    runners,    \* result of get_runners() in this cycle
    runner_diff,
    requested,  \* count argument of the create_runners call
    attempts,   \* one record per runner the create_runners call has started
    returned,   \* InstanceIDs the create_runners call returns
    installed,  \* identities a RunnerInstalled event was issued for
    cycles,     \* reconcile cycles finished
    cycleClean, \* no request of this cycle has failed so far
    cleanRun,   \* consecutive finished cycles without a failed request
    \* ---- RunnerScaler.reconcile (runner_scaler.py) ----
    reactive_config, \* self._reactive_config: "none" or a configuration
    max_quantity,    \* self._max_quantity
    spc,        \* position of reconcile()
    calls,      \* reconcile() calls begun
    branch,     \* branches entered by the current call, in order
    branchEnd,  \* how the branch of the current call ended: "returned" or "raised"
    raised,     \* exception the branch of the current call raised
    listing,    \* outcome of get_runners() in the finally block of the call
    issueCalls, \* issue_event calls made by the current call
    sink,       \* outcome of the issue_event call of the current call
    metrics,    \* Reconciliation events in the metric log
    history,    \* one record per finished reconcile() call
    \* ---- _issue_reconciliation_metric (runner_scaler.py) ----
    runner_list,  \* reconcile_metric_data.runner_list: name -> github_state, health
    metric_stats, \* reconcile_metric_data.metric_stats: event name -> count
    issued,       \* Reconciliation events the sink took from the call
    metricError,  \* "Failed to issue Reconciliation metric" was logged
    runner_info,  \* the RunnerInfo get_runner_info returned, if it was called
    \* ---- runner metric events (RunnerManager, metrics) ----
    files,        \* metric files on the VM of an identity: "none", "pre", "post"
    runnerStart,  \* bag of the identities of the RunnerStart events issued
    runnerStop,   \* bag of the identities of the RunnerStop events issued
    \* ---- reactive consumer pool (reactive/runner_manager.py) ----
    pids,         \* pids of the live reactive consumer processes
    quantity,     \* quantity argument of the pool reconcile
    ppc,          \* position of the pool reconcile
    listedPids,   \* pids the ps command listed, in its order
    delta,        \* quantity - len(pids) as computed by the call
    spawnCalls,   \* subprocess.Popen calls of the call
    killCalls,    \* pids os.kill was called for, in order
    lookupErrors,  \* os.kill calls that raised ProcessLookupError
    \* ---- bulk health query of the job manager platform ----
    identities,               \* the identities get_runners_health was asked about
    side_effects,             \* what the job manager replies to the k-th query
    requested_runners,        \* RunnersHealthResponse.requested_runners
    failed_requested_runners, \* RunnersHealthResponse.failed_requested_runners
    responded,                \* get_runners_health has returned the response
    \* ---- _delete_runner, one unhealthy instance after the other ----
    unhealthy,      \* instances cleanup has still to call _delete_runner for
    instance,       \* the instance of the running _delete_runner call, or 0
    dpc,            \* position in _delete_runner
    servers,        \* instances the cloud holds
    ssh_conn,       \* per instance: outcome of get_ssh_connection
    removal,        \* per instance: outcome of the runner removal script
    deleteCalls,    \* per instance: delete_instance calls made
    deleted,        \* per instance: outcome of delete_instance
    pulled_metrics, \* instances pull_runner_metrics was called for
    logged,         \* log records written: <<instance, message>>
    \* ---- retry wrapper (utilities.py) and flush_runners, step by step ----
    exception,      \* retry: the exception type to be retried
    tries,          \* retry: number of attempts
    delay,          \* retry: seconds to wait between attempts
    max_delay,      \* retry: cap of the wait, or -1 for None
    backoff,        \* retry: factor the wait grows by
    remain_tries,   \* fn_with_retry: attempts left
    current_delay,  \* fn_with_retry: the wait before the next attempt
    iterations,     \* fn_with_retry: iterations of the for loop started
    func_calls,     \* calls of the wrapped function made by the wrapper
    sleeps,         \* time.sleep calls made by the wrapper, with their delay
    func_result,    \* how the calls of the wrapped function ended, in order
    retry_result,   \* how the wrapper ended: "none", "returned", an exception
    raised_call,    \* the call whose exception the wrapper let through, or 0
    wpc,            \* position in fn_with_retry and the wrapped function
    flush_busy,     \* flush_runners: the busy argument
    instance_list,  \* flush_runners: the instances get_instances returned
    fidx,           \* flush_runners: index of the instance of the loop
    fpc,            \* position in flush_runners
    listener,       \* per instance: a Runner.Listener process runs on the VM
    worker,         \* per instance: a Runner.Worker process runs on the VM
    kills,          \* kill commands that hit a process
    checked,        \* instances _check_state_and_flush was called for
    warned,         \* instances flush_runners logged its SSH warning for
    cleanup_calls,  \* cleanup() calls made by flush_runners
    flush_result    \* how flush_runners ended

consumerVars == <<queue, handled, cpc, polls, creates, supported>>

httpVars == <<lockSet, locked, hpc, status, lockState, rpc>>

worldVars == <<cloud, platform, expected, server_config>>

logVars == <<cloudDel, platDel, pulled, sshFailed, failed>>

cleanupVars == <<listed, nonRequested, todo>>

reconcileVars == <<trace, runners, runner_diff, cycles, cycleClean, cleanRun>>

createVars == <<requested, attempts, returned, installed>>

managerVars == <<worldVars, mpc, ret, logVars, cleanupVars, reconcileVars, createVars>>

scalerVars == <<reactive_config, max_quantity, spc, calls, branch, branchEnd, raised,
                listing, issueCalls, sink, metrics, history>>

metricVars == <<runner_list, metric_stats, issued, metricError, runner_info>>

eventVars == <<files, runnerStart, runnerStop>>

poolVars == <<pids, quantity, ppc, listedPids, delta, spawnCalls, killCalls, lookupErrors>>

removalVars == <<unhealthy, instance, dpc, servers, ssh_conn, removal, deleteCalls, deleted,
                 pulled_metrics, logged>>

healthVars == <<identities, side_effects, requested_runners, failed_requested_runners, responded>>

retryVars == <<exception, tries, delay, max_delay, backoff, remain_tries, current_delay,
               iterations, func_calls, sleeps, func_result, retry_result, raised_call, wpc>>

flushVars == <<retryVars, flush_busy, instance_list, fidx, fpc, listener, worker, kills,
               checked, warned, cleanup_calls, flush_result>>

vars == <<consumerVars, httpVars, managerVars, scalerVars, metricVars, eventVars, poolVars,
          healthVars, removalVars, flushVars>>

(***************************************************************************)
(* Bounds of the model.                                                    *)
(***************************************************************************)
MaxQueue == 2

\* Identities of the runners that exist when the manager starts.
MaxInit == 2

\* Largest base_quantity.
MaxExpected == 2

\* Reconcile cycles run.
MaxCycles == 2

\* Largest count of a direct create_runners call.
MaxCreate == 2

\* Entries of the readiness schedule (RUNNER_CREATION_WAITING_TIMES).
NumWaitingTimes == 2

(***************************************************************************)
(* Reactive consumer.                                                      *)
(***************************************************************************)
END_PROCESSING_PAYLOAD == "__END__"

\* Number of dispatch checks _spawn_runner makes: for _ in range(10).
SpawnPolls == 10

\* Labels as they appear on the wire; str.lower() folds the case.
Labels == {"x64", "X64", "arm64"}

lower(l) == IF l = "X64" THEN "x64" ELSE l

\* A payload is the sentinel, something JobDetails.parse_raw refuses, or a
\* JobDetails with its labels.
JobPayloads == {[kind |-> "job", labels |-> ls] : ls \in {{"x64"}, {"X64"}, {"arm64"}, {"x64", "arm64"}}}

Payloads == {[kind |-> "end", labels |-> {}], [kind |-> "invalid", labels |-> {}]} \cup JobPayloads

SupportedChoices == {{"x64"}, {"X64", "arm64"}}

RECURSIVE SeqsUpTo(_, _)
SeqsUpTo(S, n) ==
    IF n = 0 THEN {<<>>}
    ELSE LET shorter == SeqsUpTo(S, n - 1)
         IN shorter \cup {Append(s, x) : s \in {t \in shorter : Len(t) = n - 1}, x \in S}

\* A mutant of _validate_labels: the labels are compared as written.
validate_labels_case_sensitive(labels, supported_labels) ==
    labels \subseteq supported_labels

\* _validate_labels: case-folded subset test.
validate_labels(labels, supported_labels) ==
    {lower(l) : l \in labels} \subseteq {lower(l) : l \in supported_labels}

NewMessage(p) ==
    [payload |-> p, acks |-> 0, rejects |-> 0, requeued |-> FALSE, picked |-> FALSE]

cur == handled[Len(handled)]

\* msg.ack() / msg.reject(requeue) on the message being handled.
Ack(h) == [h EXCEPT ![Len(h)].acks = @ + 1]
Reject(h, requeue) == [h EXCEPT ![Len(h)].rejects = @ + 1, ![Len(h)].requeued = requeue]
Picked(h) == [h EXCEPT ![Len(h)].picked = TRUE]

\* The consumer runs in a process of its own: its steps leave the rest alone.
ConsumerFrame == UNCHANGED <<httpVars, managerVars, scalerVars, metricVars, eventVars, poolVars,
                             healthVars, removalVars, flushVars>>

ConsumerInit ==
    /\ queue \in SeqsUpTo(Payloads, MaxQueue)
    /\ handled = <<>>
    /\ cpc = "get"
    /\ polls = 0
    /\ creates = 0
    /\ supported \in SupportedChoices

\* msg = simple_queue.get(block=True): blocks while the queue is empty.
Get ==
    /\ cpc = "get"
    /\ queue # <<>>
    /\ handled' = Append(handled, NewMessage(Head(queue)))
    /\ queue' = Tail(queue)
    /\ cpc' = "got"
    /\ UNCHANGED <<polls, creates, supported>>
    /\ ConsumerFrame

\* A mutant of the sentinel branch: ack without the break.
AckSentinelContinue ==
    /\ cpc = "got"
    /\ cur.payload.kind = "end"
    /\ handled' = Ack(handled)
    /\ cpc' = "get"
    /\ UNCHANGED <<queue, polls, creates, supported>>
    /\ ConsumerFrame

\* if msg.payload == END_PROCESSING_PAYLOAD: msg.ack(); break
AckSentinel ==
    /\ cpc = "got"
    /\ cur.payload.kind = "end"
    /\ handled' = Ack(handled)
    /\ cpc' = "done"
    /\ UNCHANGED <<queue, polls, creates, supported>>
    /\ ConsumerFrame

\* A mutant of _parse_job_details: the rejected payload does not raise and the
\* loop goes on.
parse_job_details_continue ==
    /\ cpc = "got"
    /\ cur.payload.kind # "end"
    /\ IF cur.payload.kind = "invalid"
       THEN /\ handled' = Reject(handled, FALSE)
            /\ cpc' = "get"
       ELSE /\ cpc' = "validate"
            /\ UNCHANGED handled
    /\ UNCHANGED <<queue, polls, creates, supported>>
    /\ ConsumerFrame

\* _parse_job_details: a payload that does not validate is rejected without
\* requeue and JobError is raised; consume() does not catch it.
parse_job_details ==
    /\ cpc = "got"
    /\ cur.payload.kind # "end"
    /\ IF cur.payload.kind = "invalid"
       THEN /\ handled' = Reject(handled, FALSE)
            /\ cpc' = "crashed"
       ELSE /\ cpc' = "validate"
            /\ UNCHANGED handled
    /\ UNCHANGED <<queue, polls, creates, supported>>
    /\ ConsumerFrame

\* if not _validate_labels(...): msg.reject(requeue=False); continue
ValidateLabels ==
    /\ cpc = "validate"
    /\ IF validate_labels(cur.payload.labels, supported)
       THEN /\ cpc' = "check"
            /\ UNCHANGED handled
       ELSE /\ handled' = Reject(handled, FALSE)
            /\ cpc' = "get"
    /\ UNCHANGED <<queue, polls, creates, supported>>
    /\ ConsumerFrame

\* A mutant of the first dispatch check: the message is acked whatever the
\* platform answers.
CheckPickedUpAckAlways ==
    /\ cpc = "check"
    /\ \E r \in {"true", "false"} :
          /\ handled' = Ack(IF r = "true" THEN Picked(handled) ELSE handled)
          /\ cpc' = "get"
    /\ UNCHANGED <<queue, polls, creates, supported>>
    /\ ConsumerFrame

\* A mutant of the first dispatch check: the ack is not followed by continue.
CheckPickedUpNoContinue ==
    /\ cpc = "check"
    /\ \E r \in {"true", "false", "error"} :
          CASE r = "true"  -> /\ handled' = Ack(Picked(handled))
                              /\ cpc' = "spawn"
            [] r = "false" -> /\ cpc' = "spawn"
                              /\ UNCHANGED handled
            [] OTHER       -> /\ cpc' = "crashed"
                              /\ UNCHANGED handled
    /\ UNCHANGED <<queue, polls, creates, supported>>
    /\ ConsumerFrame

\* A mutant of the first dispatch check: PlatformApiError is swallowed and the
\* loop goes on with the next message.
CheckPickedUpErrorContinue ==
    /\ cpc = "check"
    /\ \E r \in {"true", "false", "error"} :
          CASE r = "true"  -> /\ handled' = Ack(Picked(handled))
                              /\ cpc' = "get"
            [] r = "false" -> /\ cpc' = "spawn"
                              /\ UNCHANGED handled
            [] OTHER       -> /\ cpc' = "get"
                              /\ UNCHANGED handled
    /\ UNCHANGED <<queue, polls, creates, supported>>
    /\ ConsumerFrame

\* if platform_provider.check_job_been_picked_up(...): msg.ack(); continue
\* The platform call answers true or false, or raises PlatformApiError, which
\* consume() does not catch.
CheckPickedUp ==
    /\ cpc = "check"
    /\ \E r \in {"true", "false", "error"} :
          CASE r = "true"  -> /\ handled' = Ack(Picked(handled))
                              /\ cpc' = "get"
            [] r = "false" -> /\ cpc' = "spawn"
                              /\ UNCHANGED handled
            [] OTHER       -> /\ cpc' = "crashed"
                              /\ UNCHANGED handled
    /\ UNCHANGED <<queue, polls, creates, supported>>
    /\ ConsumerFrame

\* A mutant of _spawn_runner: the rejection of an empty result is not
\* followed by return.
SpawnCreateNoReturn ==
    /\ cpc = "spawn"
    /\ creates' = creates + 1
    /\ \E ok \in BOOLEAN :
          IF ok
          THEN /\ cpc' = "poll"
               /\ polls' = 0
               /\ UNCHANGED <<handled, queue>>
          ELSE /\ handled' = Reject(handled, TRUE)
               /\ queue' = Append(queue, cur.payload)
               /\ cpc' = "poll"
               /\ polls' = 0
    /\ UNCHANGED supported
    /\ ConsumerFrame

\* _spawn_runner, first part: create_runners(1, reactive=True); an empty
\* result rejects the message with requeue and consume() returns.
SpawnCreate ==
    /\ cpc = "spawn"
    /\ creates' = creates + 1
    /\ \E ok \in BOOLEAN :
          IF ok
          THEN /\ cpc' = "poll"
               /\ polls' = 0
               /\ UNCHANGED <<handled, queue>>
          ELSE /\ handled' = Reject(handled, TRUE)
               /\ queue' = Append(queue, cur.payload)
               /\ cpc' = "done"
               /\ UNCHANGED polls
    /\ UNCHANGED supported
    /\ ConsumerFrame

\* A mutant of the for loop: the ack is not followed by break.
SpawnPollNoBreak ==
    /\ cpc = "poll"
    /\ polls < SpawnPolls
    /\ \E r \in {"true", "false", "error"} :
          CASE r = "true"  -> /\ handled' = Ack(Picked(handled))
                              /\ polls' = polls + 1
                              /\ UNCHANGED cpc
            [] r = "false" -> /\ polls' = polls + 1
                              /\ UNCHANGED <<handled, cpc>>
            [] OTHER       -> /\ cpc' = "crashed"
                              /\ polls' = polls + 1
                              /\ UNCHANGED handled
    /\ UNCHANGED <<queue, creates, supported>>
    /\ ConsumerFrame

\* _spawn_runner, the for loop: one dispatch check per iteration, ack and
\* break on the first true, sleep(30) otherwise.
SpawnPoll ==
    /\ cpc = "poll"
    /\ polls < SpawnPolls
    /\ \E r \in {"true", "false", "error"} :
          CASE r = "true"  -> /\ handled' = Ack(Picked(handled))
                              /\ cpc' = "done"
                              /\ polls' = polls + 1
            [] r = "false" -> /\ polls' = polls + 1
                              /\ UNCHANGED <<handled, cpc>>
            [] OTHER       -> /\ cpc' = "crashed"
                              /\ polls' = polls + 1
                              /\ UNCHANGED handled
    /\ UNCHANGED <<queue, creates, supported>>
    /\ ConsumerFrame

\* A mutant of consume(): no break after _spawn_runner, the loop goes on.
SpawnExhaustedContinue ==
    /\ cpc = "poll"
    /\ polls = SpawnPolls
    /\ handled' = Reject(handled, TRUE)
    /\ queue' = Append(queue, cur.payload)
    /\ cpc' = "get"
    /\ UNCHANGED <<polls, creates, supported>>
    /\ ConsumerFrame

\* for ... else: msg.reject(requeue=True)
SpawnExhausted ==
    /\ cpc = "poll"
    /\ polls = SpawnPolls
    /\ handled' = Reject(handled, TRUE)
    /\ queue' = Append(queue, cur.payload)
    /\ cpc' = "done"
    /\ UNCHANGED <<polls, creates, supported>>
    /\ ConsumerFrame

\* A mutant of sigterm_handler: the message in hand is rejected with requeue
\* before the exit.
SigtermRejects ==
    /\ cpc \notin {"done", "crashed", "terminated"}
    /\ cpc' = "terminated"
    /\ handled' = IF cpc = "get" THEN handled ELSE Reject(handled, TRUE)
    /\ UNCHANGED <<queue, polls, creates, supported>>
    /\ ConsumerFrame

\* sigterm_handler: sys.exit(signal_code) wherever consume() is.
Sigterm ==
    /\ cpc \notin {"done", "crashed", "terminated"}
    /\ cpc' = "terminated"
    /\ UNCHANGED <<queue, handled, polls, creates, supported>>
    /\ ConsumerFrame

ConsumerNext ==
    \/ Get
    \/ AckSentinel
    \/ parse_job_details
    \/ ValidateLabels
    \/ CheckPickedUp
    \/ SpawnCreate
    \/ SpawnPoll
    \/ SpawnExhausted
    \/ Sigterm

(***************************************************************************)
(* HTTP control surface: POST /runner/flush, and the control loop that     *)
(* reconciles while holding the same lock.                                 *)
(***************************************************************************)
NumThreads == 2

Threads == 1..NumThreads

\* get_lock: the lock start_http_server stored, or LockError.
get_lock == IF lockSet THEN "lock" ELSE "LockError"

\* The request threads inside the with block of flush_runner.
InBody == {t \in Threads : hpc[t] \in {"build", "flush"}}

\* Number of state-mutating bodies running: flushes and the reconcile cycle.
BodiesRunning == Cardinality(InBody) + (IF rpc = "body" THEN 1 ELSE 0)

HttpFrame == UNCHANGED <<consumerVars, managerVars, scalerVars, metricVars, eventVars, poolVars,
                         healthVars, removalVars, flushVars>>

HttpInit ==
    /\ lockSet = FALSE
    /\ locked = FALSE
    /\ hpc = [t \in Threads |-> "idle"]
    /\ status = [t \in Threads |-> 0]
    /\ lockState = [t \in Threads |-> "none"]
    /\ rpc = "wait"

\* start_http_server: _lock = lock, then app.run serves requests.
start_http_server ==
    /\ ~lockSet
    /\ lockSet' = TRUE
    /\ UNCHANGED <<locked, hpc, status, lockState, rpc>>
    /\ HttpFrame

\* flush_runner up to the with statement: a request is served by thread t;
\* LockError, raised when no lock was stored, ends it with a 500; otherwise
\* lock_state = "locked" if lock.locked() else "unlocked" is logged.
FlushRequest(t) ==
    /\ hpc[t] = "idle"
    /\ IF get_lock = "lock"
       THEN /\ hpc' = [hpc EXCEPT ![t] = "acquire"]
            /\ lockState' = [lockState EXCEPT
                                ![t] = IF locked THEN "locked" ELSE "unlocked"]
            /\ UNCHANGED status
       ELSE /\ status' = [status EXCEPT ![t] = 500]
            /\ UNCHANGED <<hpc, lockState>>
    /\ UNCHANGED <<lockSet, locked, rpc>>
    /\ HttpFrame

\* A mutant of the acquisition: the body is entered without waiting for the
\* lock to be free.
FlushAcquireNoWait(t) ==
    /\ hpc[t] = "acquire"
    /\ locked' = TRUE
    /\ hpc' = [hpc EXCEPT ![t] = "build"]
    /\ UNCHANGED <<lockSet, status, lockState, rpc>>
    /\ HttpFrame

\* A mutant of the acquisition: a request that finds the lock held is
\* answered at once instead of waiting.
FlushAcquireOrDrop(t) ==
    /\ hpc[t] = "acquire"
    /\ IF locked
       THEN /\ hpc' = [hpc EXCEPT ![t] = "idle"]
            /\ status' = [status EXCEPT ![t] = 500]
            /\ UNCHANGED locked
       ELSE /\ locked' = TRUE
            /\ hpc' = [hpc EXCEPT ![t] = "build"]
            /\ UNCHANGED status
    /\ UNCHANGED <<lockSet, lockState, rpc>>
    /\ HttpFrame

\* with lock: blocks until the lock is free, then holds it.
FlushAcquire(t) ==
    /\ hpc[t] = "acquire"
    /\ ~locked
    /\ locked' = TRUE
    /\ hpc' = [hpc EXCEPT ![t] = "build"]
    /\ UNCHANGED <<lockSet, status, lockState, rpc>>
    /\ HttpFrame

\* A mutant of the with block: an exception of RunnerScaler.build ends the
\* request without releasing the lock.
FlushBuildKeepsLock(t) ==
    /\ hpc[t] = "build"
    /\ \E ok \in BOOLEAN :
          IF ok
          THEN /\ hpc' = [hpc EXCEPT ![t] = "flush"]
               /\ UNCHANGED <<locked, status>>
          ELSE /\ hpc' = [hpc EXCEPT ![t] = "idle"]
               /\ status' = [status EXCEPT ![t] = 500]
               /\ UNCHANGED locked
    /\ UNCHANGED <<lockSet, lockState, rpc>>
    /\ HttpFrame

\* RunnerScaler.build(...) inside the with block; an exception leaves the
\* block, which releases the lock, and the request ends with a 500.
FlushBuild(t) ==
    /\ hpc[t] = "build"
    /\ \E ok \in BOOLEAN :
          IF ok
          THEN /\ hpc' = [hpc EXCEPT ![t] = "flush"]
               /\ UNCHANGED <<locked, status>>
          ELSE /\ hpc' = [hpc EXCEPT ![t] = "idle"]
               /\ locked' = FALSE
               /\ status' = [status EXCEPT ![t] = 500]
    /\ UNCHANGED <<lockSet, lockState, rpc>>
    /\ HttpFrame

\* runner_scaler.flush(flush_mode), the end of the with block and the return.
FlushBody(t) ==
    /\ hpc[t] = "flush"
    /\ \E ok \in BOOLEAN :
          status' = [status EXCEPT ![t] = IF ok THEN 204 ELSE 500]
    /\ hpc' = [hpc EXCEPT ![t] = "idle"]
    /\ locked' = FALSE
    /\ UNCHANGED <<lockSet, lockState, rpc>>
    /\ HttpFrame

\* The control loop takes the lock for one reconcile cycle.
ReconcileAcquire ==
    /\ rpc = "wait"
    /\ ~locked
    /\ locked' = TRUE
    /\ rpc' = "body"
    /\ UNCHANGED <<lockSet, hpc, status, lockState>>
    /\ HttpFrame

\* The reconcile cycle ends and the control loop releases the lock.
ReconcileRelease ==
    /\ rpc = "body"
    /\ locked' = FALSE
    /\ rpc' = "wait"
    /\ UNCHANGED <<lockSet, hpc, status, lockState>>
    /\ HttpFrame

HttpNext ==
    \/ start_http_server
    \/ \E t \in Threads : FlushRequest(t)
    \/ \E t \in Threads : FlushAcquire(t)
    \/ \E t \in Threads : FlushBuild(t)
    \/ \E t \in Threads : FlushBody(t)
    \/ ReconcileAcquire
    \/ ReconcileRelease

(***************************************************************************)
(* Runner manager: cloud, platform, cleanup, create and delete.            *)
(***************************************************************************)
InitIds == 1..MaxInit

\* Outcome of health_checks.check_runner for an instance: True, False, or
\* OpenstackHealthCheckError.
Outcomes == {"healthy", "unhealthy", "unknown"}

NoInstances == [i \in {} |-> "unhealthy"]

Min(S) == CHOOSE x \in S : \A y \in S : x <= y

BagAdd(b, x) == b (+) SetToBag({x})

RemoveInstance(c, i) == [j \in DOMAIN c \ {i} |-> c[j]]

AddInstance(c, i, h) == [j \in DOMAIN c \cup {i} |-> IF j = i THEN h ELSE c[j]]

\* Identities are numbered; the ones of this manager, which carry its
\* configured prefix, are the positive ones, and an identity that is not
\* positive belongs to another deployment that shares the cloud and the
\* platform.
name_has_prefix(i) == i > 0

Restrict(c, S) == [j \in DOMAIN c \cap S |-> c[j]]

\* A mutant of the listing: the cloud inventory is not scoped to the prefix.
get_instances_unscoped == cloud

\* OpenstackCloud(prefix=self.name_prefix).get_instances(): the instances
\* whose name carries the prefix.
get_instances == Restrict(cloud, {i \in DOMAIN cloud : name_has_prefix(i)})

\* get_runner_github_info(path, prefix): the registrations whose name carries
\* the prefix.
get_runner_github_info == {i \in platform : name_has_prefix(i)}

\* A mutant of the classification: a health check that raised counts as failed.
get_runners_health_error_unhealthy(c) ==
    [healthy   |-> {i \in DOMAIN c : c[i] = "healthy"},
     unhealthy |-> {i \in DOMAIN c : c[i] \in {"unhealthy", "unknown"}},
     unknown   |-> {}]

\* A mutant of the classification: a health check that raised counts as passed.
get_runners_health_error_healthy(c) ==
    [healthy   |-> {i \in DOMAIN c : c[i] \in {"healthy", "unknown"}},
     unhealthy |-> {i \in DOMAIN c : c[i] = "unhealthy"},
     unknown   |-> {}]

\* _get_runners_health: True -> healthy, False -> unhealthy, error -> unknown.
get_runners_health(c) ==
    [healthy   |-> {i \in DOMAIN c : c[i] = "healthy"},
     unhealthy |-> {i \in DOMAIN c : c[i] = "unhealthy"},
     unknown   |-> {i \in DOMAIN c : c[i] = "unknown"}]

\* Joined-health verdict: an instance whose registration the platform has
\* released no longer counts as healthy.
JoinedVerdict(c, i) ==
    IF i \in DOMAIN c /\ c[i] = "healthy" THEN [c EXCEPT ![i] = "unhealthy"] ELSE c

\* A mutant of _delete_runner: everything but the delete_instance call.
delete_runner_instance_no_delete(i, ssh, delOk) ==
    /\ pulled' = IF ssh THEN pulled \cup {i} ELSE pulled
    /\ sshFailed' = IF ssh THEN sshFailed ELSE sshFailed \cup {i}
    /\ UNCHANGED <<cloud, platform, cloudDel, platDel, failed, cycleClean>>

\* _delete_runner: open SSH, pull the metrics and run the removal script when
\* SSH works, then delete_instance whatever happened; OpenStackError is logged.
delete_runner_instance(i, ssh, delOk) ==
    /\ pulled' = IF ssh THEN pulled \cup {i} ELSE pulled
    /\ sshFailed' = IF ssh THEN sshFailed ELSE sshFailed \cup {i}
    /\ cloudDel' = BagAdd(cloudDel, i)
    /\ cloud' = IF delOk THEN RemoveInstance(cloud, i) ELSE cloud
    /\ failed' = IF delOk THEN failed ELSE failed \cup {i}
    /\ cycleClean' = (cycleClean /\ delOk)
    /\ UNCHANGED <<platform, platDel>>

\* A mutant of delete_runner: it returns as if the instance were not found.
delete_runner_not_found(i, ssh, delOk) ==
    UNCHANGED <<cloud, platform, logVars, cycleClean>>

\* OpenStackRunnerManager.delete_runner: nothing to do for an instance that
\* get_instance does not find, _delete_runner otherwise.
delete_runner(i, ssh, delOk) ==
    IF i \in DOMAIN get_instances
    THEN delete_runner_instance(i, ssh, delOk)
    ELSE UNCHANGED <<cloud, platform, logVars, cycleClean>>

\* platform.delete_runner(identity): idempotent, may fail.
PlatformDelete(i, ok) ==
    /\ platDel' = BagAdd(platDel, i)
    /\ platform' = IF ok THEN platform \ {i} ELSE platform
    /\ failed' = IF ok THEN failed ELSE failed \cup {i}
    /\ cloud' = IF ok THEN JoinedVerdict(cloud, i) ELSE cloud
    /\ cycleClean' = (cycleClean /\ ok)
    /\ UNCHANGED <<cloudDel, pulled, sshFailed>>

ManagerFrame == UNCHANGED <<consumerVars, httpVars, scalerVars, metricVars, poolVars,
                            healthVars, removalVars, flushVars>>

EventFrame == UNCHANGED eventVars

\* The metric files a runner leaves on its VM: none before its job starts,
\* the pre-job file once the job has started, the post-job file as well once
\* the job has ended.
FileStates == {"none", "pre", "post"}

FilesOf(i) == IF i \in DOMAIN files THEN files[i] ELSE "none"

\* The events issued for the runner metrics that a cleanup or a delete
\* returned: RunnerStart for a runner with pre-job metrics, RunnerStop as well
\* for one with post-job metrics, nothing for a runner without metrics.
issue_events(ids) ==
    /\ runnerStart' = runnerStart (+) SetToBag({i \in ids : FilesOf(i) \in {"pre", "post"}})
    /\ runnerStop' = runnerStop (+) SetToBag({i \in ids : FilesOf(i) = "post"})
    /\ UNCHANGED files

\* No retry wrapper is running and flush_runners has not been called.
FlushRest ==
    /\ exception = "Exception"
    /\ tries = 1
    /\ delay = 0
    /\ max_delay = -1
    /\ backoff = 1
    /\ remain_tries = 0
    /\ current_delay = 0
    /\ iterations = 0
    /\ func_calls = 0
    /\ sleeps = <<>>
    /\ func_result = <<>>
    /\ retry_result = "none"
    /\ raised_call = 0
    /\ wpc = "idle"
    /\ flush_busy = FALSE
    /\ instance_list = <<>>
    /\ fidx = 0
    /\ fpc = "idle"
    /\ listener = <<>>
    /\ worker = <<>>
    /\ kills = {}
    /\ checked = {}
    /\ warned = {}
    /\ cleanup_calls = 0
    /\ flush_result = "none"

\* cleanup has no instance to delete.
RemovalRest ==
    /\ unhealthy = {}
    /\ instance = 0
    /\ dpc = "idle"
    /\ servers = {}
    /\ ssh_conn = <<>>
    /\ removal = <<>>
    /\ deleteCalls = <<>>
    /\ deleted = <<>>
    /\ pulled_metrics = {}
    /\ logged = {}

\* get_runners_health has not been called.
HealthRest ==
    /\ identities = <<>>
    /\ side_effects = <<>>
    /\ requested_runners = <<>>
    /\ failed_requested_runners = <<>>
    /\ responded = FALSE

\* No consumer process runs and the pool reconcile has not been called.
PoolRest ==
    /\ pids = {}
    /\ quantity = 0
    /\ ppc = "idle"
    /\ listedPids = <<>>
    /\ delta = 0
    /\ spawnCalls = 0
    /\ killCalls = <<>>
    /\ lookupErrors = 0

\* No runner has metric files and no event was issued.
EventRest ==
    /\ files = <<>>
    /\ runnerStart = EmptyBag
    /\ runnerStop = EmptyBag

ConsumerRest ==
    /\ queue = <<>>
    /\ handled = <<>>
    /\ cpc = "done"
    /\ polls = 0
    /\ creates = 0
    /\ supported = {}

HttpRest ==
    /\ lockSet = FALSE
    /\ locked = FALSE
    /\ hpc = [t \in Threads |-> "idle"]
    /\ status = [t \in Threads |-> 0]
    /\ lockState = [t \in Threads |-> "none"]
    /\ rpc = "wait"

\* No Reconciliation metric is being issued.
MetricRest ==
    /\ runner_list = <<>>
    /\ metric_stats = <<>>
    /\ issued = <<>>
    /\ metricError = FALSE
    /\ runner_info = <<>>

\* A RunnerScaler whose reconcile() has not been called.
ScalerRest ==
    /\ reactive_config = "none"
    /\ max_quantity = 0
    /\ spc = "idle"
    /\ calls = 0
    /\ branch = <<>>
    /\ branchEnd = "none"
    /\ raised = "none"
    /\ listing = "none"
    /\ issueCalls = 0
    /\ sink = "none"
    /\ metrics = <<>>
    /\ history = <<>>

\* The server configuration (image, flavor, network) is set.
ServerConfigured == server_config = "config"

ManagerRest ==
    /\ mpc = "idle"
    /\ ret = "none"
    /\ listed = NoInstances
    /\ nonRequested = {}
    /\ todo = {}
    /\ cloudDel = EmptyBag
    /\ platDel = EmptyBag
    /\ pulled = {}
    /\ sshFailed = {}
    /\ failed = {}
    /\ trace = <<>>
    /\ runners = {}
    /\ runner_diff = 0
    /\ requested = 0
    /\ attempts = <<>>
    /\ returned = {}
    /\ installed = {}
    /\ cycles = 0
    /\ cycleClean = TRUE
    /\ cleanRun = 0

\* Any starting population: instances with any health check outcome,
\* registrations with or without an instance. An instance the platform does
\* not know is not healthy (joined-health verdict).
ReconcileInit ==
    /\ cloud \in UNION {[S -> Outcomes] : S \in SUBSET InitIds}
    /\ platform \in SUBSET InitIds
    /\ \A i \in DOMAIN cloud \ platform : cloud[i] # "healthy"
    /\ expected \in 0..MaxExpected
    /\ ManagerRest
    /\ ServerConfigured
    /\ ConsumerRest
    /\ HttpRest
    /\ ScalerRest
    /\ MetricRest
    /\ EventRest
    /\ HealthRest
    /\ RemovalRest
    /\ FlushRest
    /\ PoolRest

(***************************************************************************)
(* cleanup(): ghosts first, then the unhealthy instances, cloud then       *)
(* platform.                                                               *)
(***************************************************************************)
\* A mutant of the start of the cycle: the diff is taken before any cleanup.
reconcile_non_reactive_no_cleanup ==
    /\ mpc = "idle"
    /\ cycles < MaxCycles
    /\ cleanRun = cycles
    /\ mpc' = "cleanup_done"
    /\ trace' = <<>>
    /\ cycleClean' = TRUE
    /\ UNCHANGED <<worldVars, ret, logVars, cleanupVars, runners, runner_diff, cycles, cleanRun, createVars>>
    /\ ManagerFrame
    /\ EventFrame

\* _reconcile_non_reactive begins: metric_stats = self._manager.cleanup().
\* A run is a starting population followed by consecutive reconciles whose
\* every request succeeded; a reconcile with a failed request ends the run.
reconcile_non_reactive ==
    /\ mpc = "idle"
    /\ cycles < MaxCycles
    /\ cleanRun = cycles
    /\ mpc' = "cleanup"
    /\ trace' = <<"cleanup">>
    /\ cycleClean' = TRUE
    /\ UNCHANGED <<worldVars, ret, logVars, cleanupVars, runners, runner_diff, cycles, cleanRun, createVars>>
    /\ ManagerFrame
    /\ EventFrame

\* cleanup step 1: list the cloud inventory and ask the platform for its
\* health; non_requested are the identities the platform knows and the cloud
\* does not.
CleanupList ==
    /\ mpc = "cleanup"
    /\ nonRequested' = get_runner_github_info \ DOMAIN get_instances
    /\ todo' = get_runner_github_info \ DOMAIN get_instances
    /\ listed' = NoInstances
    /\ cloudDel' = EmptyBag
    /\ platDel' = EmptyBag
    /\ pulled' = {}
    /\ sshFailed' = {}
    /\ failed' = {}
    /\ mpc' = "cleanup_ghosts"
    /\ UNCHANGED <<worldVars, ret, reconcileVars, createVars>>
    /\ ManagerFrame
    /\ EventFrame

\* A mutant of step 2: ghosts are skipped.
CleanupGhostSkip ==
    /\ mpc = "cleanup_ghosts"
    /\ todo # {}
    /\ todo' = todo \ {Min(todo)}
    /\ UNCHANGED <<worldVars, logVars, mpc, ret, listed, nonRequested, reconcileVars, createVars>>
    /\ ManagerFrame
    /\ EventFrame

\* cleanup step 2: platform.delete_runner for every non_requested identity.
CleanupGhost ==
    /\ mpc = "cleanup_ghosts"
    /\ todo # {}
    /\ \E ok \in BOOLEAN : PlatformDelete(Min(todo), ok)
    /\ todo' = todo \ {Min(todo)}
    /\ UNCHANGED <<expected, server_config, mpc, ret, listed, nonRequested>>
    /\ UNCHANGED <<trace, runners, runner_diff, cycles, cleanRun, createVars>>
    /\ ManagerFrame
    /\ EventFrame

\* OpenStackRunnerManager.cleanup begins: runners = self._get_runners_health().
cleanup_begin ==
    /\ mpc = "cleanup_ghosts"
    /\ todo = {}
    /\ listed' = get_instances
    /\ todo' = get_runners_health(get_instances).unhealthy
    /\ mpc' = "cleanup_delete"
    /\ UNCHANGED <<worldVars, ret, logVars, nonRequested, reconcileVars, createVars>>
    /\ ManagerFrame
    /\ EventFrame

\* for runner in runners.unhealthy: self._delete_runner(runner, remove_token)
cleanup_delete ==
    /\ mpc = "cleanup_delete"
    /\ todo # {}
    /\ \E ssh \in BOOLEAN, delOk \in BOOLEAN : delete_runner_instance(Min(todo), ssh, delOk)
    /\ todo' = todo \ {Min(todo)}
    /\ UNCHANGED <<expected, server_config, mpc, ret, listed, nonRequested>>
    /\ UNCHANGED <<trace, runners, runner_diff, cycles, cleanRun, createVars>>
    /\ ManagerFrame
    /\ EventFrame

\* self._openstack_cloud.cleanup(); return extracted_runner_metrics
cleanup_finish ==
    /\ mpc = "cleanup_delete"
    /\ todo = {}
    /\ todo' = get_runners_health(listed).unhealthy
    /\ mpc' = "cleanup_platform"
    /\ issue_events(pulled)
    /\ UNCHANGED <<worldVars, ret, logVars, listed, nonRequested, reconcileVars, createVars>>
    /\ ManagerFrame

\* cleanup step 3, platform side: delete_runner for every runner deleted as
\* unhealthy.
CleanupPlatform ==
    /\ mpc = "cleanup_platform"
    /\ todo # {}
    /\ \E ok \in BOOLEAN : PlatformDelete(Min(todo), ok)
    /\ todo' = todo \ {Min(todo)}
    /\ UNCHANGED <<expected, server_config, mpc, ret, listed, nonRequested>>
    /\ UNCHANGED <<trace, runners, runner_diff, cycles, cleanRun, createVars>>
    /\ ManagerFrame
    /\ EventFrame

\* cleanup() returns to _reconcile_non_reactive, or to flush.
CleanupReturn ==
    /\ mpc = "cleanup_platform"
    /\ todo = {}
    /\ IF ret = "flush"
       THEN /\ mpc' = "idle"
            /\ ret' = "none"
            /\ cycles' = cycles + 1
            /\ cleanRun' = IF cycleClean THEN cleanRun + 1 ELSE 0
            /\ cycleClean' = TRUE
            /\ listed' = NoInstances
            /\ nonRequested' = {}
            /\ cloudDel' = EmptyBag
            /\ platDel' = EmptyBag
            /\ pulled' = {}
            /\ sshFailed' = {}
            /\ failed' = {}
            /\ UNCHANGED trace
       ELSE /\ mpc' = "cleanup_done"
            /\ trace' = Append(trace, "cleanup_returned")
            /\ UNCHANGED <<ret, cycles, cycleClean, cleanRun, logVars, listed, nonRequested>>
    /\ UNCHANGED <<worldVars, todo, runners, runner_diff, createVars>>
    /\ ManagerFrame
    /\ EventFrame

\* flush_runners: for every instance of get_instances(), the runner processes
\* are killed when the runner is in the state the flush mode asks for and SSH
\* works; then cleanup().
flush_runners ==
    /\ mpc = "idle"
    /\ ret = "none"
    /\ cycles < MaxCycles
    /\ \E K \in SUBSET DOMAIN get_instances :
          cloud' = [i \in DOMAIN cloud |-> IF i \in K THEN "unhealthy" ELSE cloud[i]]
    /\ ret' = "flush"
    /\ mpc' = "cleanup"
    /\ UNCHANGED <<platform, expected, server_config, logVars, cleanupVars, reconcileVars, createVars>>
    /\ ManagerFrame
    /\ EventFrame

(***************************************************************************)
(* _reconcile_non_reactive after cleanup.                                  *)
(***************************************************************************)
\* RunnerManager.get_runners: the runners that survive in the cloud.
get_runners == DOMAIN get_instances

\* A mutant of the diff: off by one.
RunnerDiffOffByOne(expected_quantity, rs) == expected_quantity - Cardinality(rs) + 1

\* runner_diff = expected_quantity - len(runners)
RunnerDiff(expected_quantity, rs) == expected_quantity - Cardinality(rs)

\* runners = self._manager.get_runners(); runner_diff = ...
\* The record of the calls cleanup made ends with cleanup.
ReconcileGetRunners ==
    /\ mpc = "cleanup_done"
    /\ runners' = get_runners
    /\ runner_diff' = RunnerDiff(expected, get_runners)
    /\ trace' = Append(trace, "get_runners")
    /\ mpc' = "diff"
    /\ listed' = NoInstances
    /\ nonRequested' = {}
    /\ cloudDel' = EmptyBag
    /\ platDel' = EmptyBag
    /\ pulled' = {}
    /\ sshFailed' = {}
    /\ failed' = {}
    /\ UNCHANGED <<worldVars, ret, todo, cycles, cycleClean, cleanRun, createVars>>
    /\ ManagerFrame
    /\ EventFrame

\* A mutant of the branch: delete_runners is called whenever no runner is
\* missing, also when the diff is zero.
ReconcileBranchDeleteOnZero ==
    /\ mpc = "diff"
    /\ IF runner_diff > 0
       THEN /\ requested' = runner_diff
            /\ attempts' = <<>>
            /\ returned' = {}
            /\ ret' = "reconcile"
            /\ mpc' = "create_next"
            /\ trace' = Append(trace, "create_runners")
            /\ UNCHANGED installed
       ELSE /\ mpc' = "delete_pick"
            /\ trace' = Append(trace, "delete_runners")
            /\ UNCHANGED <<ret, createVars>>
    /\ UNCHANGED <<worldVars, logVars, cleanupVars, runners, runner_diff, cycles, cycleClean, cleanRun>>
    /\ ManagerFrame
    /\ EventFrame

\* if runner_diff > 0: create_runners(runner_diff)
\* elif runner_diff < 0: delete_runners(-runner_diff)
ReconcileBranch ==
    /\ mpc = "diff"
    /\ IF runner_diff > 0
       THEN /\ requested' = runner_diff
            /\ attempts' = <<>>
            /\ returned' = {}
            /\ ret' = "reconcile"
            /\ mpc' = "create_next"
            /\ trace' = Append(trace, "create_runners")
            /\ UNCHANGED installed
       ELSE /\ IF runner_diff < 0
               THEN /\ mpc' = "delete_pick"
                    /\ trace' = Append(trace, "delete_runners")
               ELSE /\ mpc' = "reconcile_done"
                    /\ UNCHANGED trace
            /\ UNCHANGED <<ret, createVars>>
    /\ UNCHANGED <<worldVars, logVars, cleanupVars, runners, runner_diff, cycles, cycleClean, cleanRun>>
    /\ ManagerFrame
    /\ EventFrame

\* delete_runners(n): n of the listed runners are picked.
DeleteRunnersPick ==
    /\ mpc = "delete_pick"
    /\ \E V \in SUBSET get_runners :
          /\ Cardinality(V) = -runner_diff
          /\ todo' = V
    /\ mpc' = "delete_cloud"
    /\ UNCHANGED <<worldVars, ret, logVars, listed, nonRequested, reconcileVars, createVars>>
    /\ ManagerFrame
    /\ EventFrame

\* delete_runners, cloud side of one runner: cloud.delete_runner(instance_id).
DeleteRunnersCloud ==
    /\ mpc = "delete_cloud"
    /\ todo # {}
    /\ \E ssh \in BOOLEAN, delOk \in BOOLEAN :
          /\ delete_runner(Min(todo), ssh, delOk)
          /\ issue_events(IF ssh /\ Min(todo) \in DOMAIN get_instances
                          THEN {Min(todo)} ELSE {})
    /\ mpc' = "delete_platform"
    /\ UNCHANGED <<expected, server_config, ret, cleanupVars>>
    /\ UNCHANGED <<trace, runners, runner_diff, cycles, cleanRun, createVars>>
    /\ ManagerFrame

\* delete_runners, platform side of the same runner.
DeleteRunnersPlatform ==
    /\ mpc = "delete_platform"
    /\ \E ok \in BOOLEAN : PlatformDelete(Min(todo), ok)
    /\ todo' = todo \ {Min(todo)}
    /\ mpc' = "delete_cloud"
    /\ UNCHANGED <<expected, server_config, ret, listed, nonRequested>>
    /\ UNCHANGED <<trace, runners, runner_diff, cycles, cleanRun, createVars>>
    /\ ManagerFrame
    /\ EventFrame

\* delete_runners returns.
DeleteRunnersReturn ==
    /\ mpc = "delete_cloud"
    /\ todo = {}
    /\ mpc' = "reconcile_done"
    /\ UNCHANGED <<worldVars, ret, logVars, cleanupVars, reconcileVars, createVars>>
    /\ ManagerFrame
    /\ EventFrame

\* return _ReconcileResult(runner_diff=runner_diff, metric_stats=metric_stats):
\* the locals of the cycle and the record of its calls are dropped.
ReconcileReturn ==
    /\ mpc = "reconcile_done"
    /\ mpc' = "idle"
    /\ cycles' = cycles + 1
    /\ cleanRun' = IF cycleClean THEN cleanRun + 1 ELSE 0
    /\ ret' = "none"
    /\ listed' = NoInstances
    /\ nonRequested' = {}
    /\ cloudDel' = EmptyBag
    /\ platDel' = EmptyBag
    /\ pulled' = {}
    /\ sshFailed' = {}
    /\ failed' = {}
    /\ trace' = <<>>
    /\ runners' = {}
    /\ runner_diff' = 0
    /\ requested' = 0
    /\ attempts' = <<>>
    /\ returned' = {}
    /\ installed' = {}
    /\ cycleClean' = TRUE
    /\ UNCHANGED <<worldVars, todo>>
    /\ ManagerFrame
    /\ EventFrame

(***************************************************************************)
(* create_runners(count): credential, cloud launch, readiness wait.        *)
(***************************************************************************)
Replies == [online : BOOLEAN, deletable : BOOLEAN]

curAttempt == attempts[Len(attempts)]

SetResult(a, r) == [a EXCEPT ![Len(a)].result = r]

\* A mutant of the readiness test: only online counts.
is_ready_online_only(reply) == reply.online

\* A runner is ready when online=true or deletable=true.
is_ready(reply) == reply.online \/ reply.deletable

\* A direct call of create_runners(count, metadata, reactive) on an empty
\* cloud.
CreateInit ==
    /\ cloud = NoInstances
    /\ platform = {}
    /\ expected = 0
    /\ ManagerRest
    /\ ServerConfigured

InitCreate == CreateInit /\ ConsumerRest /\ HttpRest /\ ScalerRest /\ MetricRest /\ EventRest /\ PoolRest /\ HealthRest /\ RemovalRest /\ FlushRest

CallCreateRunners ==
    /\ mpc = "idle"
    /\ requested = 0
    /\ \E n \in 1..MaxCreate : requested' = n
    /\ attempts' = <<>>
    /\ returned' = {}
    /\ ret' = "direct"
    /\ mpc' = "create_next"
    /\ UNCHANGED <<worldVars, logVars, cleanupVars, reconcileVars, installed>>
    /\ ManagerFrame
    /\ EventFrame

\* InstanceID.build: a name that no instance, no registration and no earlier
\* runner of this call holds.
FreshId ==
    LET used == DOMAIN cloud \cup platform \cup {attempts[k].id : k \in 1..Len(attempts)}
    IN Min({i \in 1..(Cardinality(used) + 1) : i \notin used})

\* Step 1 for the next runner: a fresh InstanceID.
CreateNext ==
    /\ mpc = "create_next"
    /\ Len(attempts) < requested
    /\ attempts' = Append(attempts, [id |-> FreshId, cloud |-> "none", replies |-> <<>>, result |-> "pending"])
    /\ mpc' = "create_credential"
    /\ UNCHANGED <<cloud, platform, expected, server_config, ret, logVars, cleanupVars, reconcileVars, requested, returned, installed>>
    /\ ManagerFrame
    /\ EventFrame

\* Step 2: the platform issues the credential and registers the identity; on
\* failure this runner is given up and the cloud is not touched.
CreateCredential ==
    /\ mpc = "create_credential"
    /\ \E ok \in BOOLEAN :
          IF ok
          THEN /\ platform' = platform \cup {curAttempt.id}
               /\ mpc' = "create_cloud"
               /\ UNCHANGED <<attempts, cycleClean>>
          ELSE /\ attempts' = SetResult(attempts, "credential_failed")
               /\ mpc' = "create_next"
               /\ cycleClean' = FALSE
               /\ UNCHANGED platform
    /\ UNCHANGED <<cloud, expected, server_config, ret, logVars, cleanupVars>>
    /\ UNCHANGED <<trace, runners, runner_diff, cycles, cleanRun, requested, returned, installed>>
    /\ ManagerFrame
    /\ EventFrame

\* A mutant of create_runner: a failed launch is not reported to the caller.
create_runner_swallow(outcome) ==
    /\ attempts' = [attempts EXCEPT ![Len(attempts)].cloud = outcome]
    /\ cloud' = IF outcome = "RunnerCreateError"
                THEN cloud
                ELSE AddInstance(cloud, curAttempt.id, "unhealthy")
    /\ mpc' = "create_wait"
    /\ cycleClean' = (cycleClean /\ outcome = "ok")

\* A mutant of create_runner: the server configuration is not looked at.
create_runner_unconfigured(outcome) ==
    /\ attempts' = [attempts EXCEPT ![Len(attempts)].cloud = outcome]
    /\ cloud' = IF outcome = "RunnerCreateError"
                THEN cloud
                ELSE AddInstance(cloud, curAttempt.id, "unhealthy")
    /\ mpc' = IF outcome = "ok" THEN "create_wait" ELSE "create_failed"
    /\ cycleClean' = (cycleClean /\ outcome = "ok")

\* OpenStackRunnerManager.create_runner: launch_instance fails with
\* RunnerCreateError (no instance), the waits for the runner process fail with
\* RunnerStartError (the instance stays), or the runner is created. A new
\* runner is not healthy before the platform has seen it online.
\* Without a server configuration MissingServerConfigError is raised before
\* anything is launched.
create_runner(outcome) ==
    IF server_config = "none"
    THEN /\ attempts' = [attempts EXCEPT ![Len(attempts)].cloud = "MissingServerConfigError"]
         /\ mpc' = "create_aborted"
         /\ cycleClean' = FALSE
         /\ UNCHANGED cloud
    ELSE /\ attempts' = [attempts EXCEPT ![Len(attempts)].cloud = outcome]
         /\ cloud' = IF outcome = "RunnerCreateError"
                     THEN cloud
                     ELSE AddInstance(cloud, curAttempt.id, "unhealthy")
         /\ mpc' = IF outcome = "ok" THEN "create_wait" ELSE "create_failed"
         /\ cycleClean' = (cycleClean /\ outcome = "ok")

\* Step 4: ask the cloud to launch.
CreateCloud ==
    /\ mpc = "create_cloud"
    /\ \E outcome \in {"ok", "RunnerCreateError", "RunnerStartError"} : create_runner(outcome)
    /\ UNCHANGED <<platform, expected, server_config, ret, logVars, cleanupVars>>
    /\ UNCHANGED <<trace, runners, runner_diff, cycles, cleanRun, requested, returned, installed>>
    /\ ManagerFrame
    /\ EventFrame

\* Step 4 on failure: platform.delete_runner undoes the registration and the
\* call goes on with the next runner.
CreateFailed ==
    /\ mpc = "create_failed"
    /\ \E ok \in BOOLEAN : PlatformDelete(curAttempt.id, ok)
    /\ attempts' = SetResult(attempts, "cloud_failed")
    /\ mpc' = "create_next"
    /\ UNCHANGED <<expected, server_config, ret, cleanupVars>>
    /\ UNCHANGED <<trace, runners, runner_diff, cycles, cleanRun, requested, returned, installed>>
    /\ ManagerFrame
    /\ EventFrame

\* Step 5: one poll of platform.get_runner_health per entry of the schedule,
\* until the runner is ready.
ReadinessPoll ==
    /\ mpc = "create_wait"
    /\ Len(curAttempt.replies) < NumWaitingTimes
    /\ \E reply \in Replies :
          LET polled == [attempts EXCEPT ![Len(attempts)].replies = Append(@, reply)]
          IN IF is_ready(reply)
             THEN /\ attempts' = SetResult(polled, "ready")
                  /\ returned' = returned \cup {curAttempt.id}
                  /\ installed' = installed \cup {curAttempt.id}
                  /\ cloud' = IF reply.online /\ curAttempt.id \in DOMAIN cloud
                              THEN [cloud EXCEPT ![curAttempt.id] = "healthy"]
                              ELSE cloud
                  /\ cycleClean' = (cycleClean /\ reply.online)
                  /\ mpc' = "create_next"
             ELSE /\ attempts' = polled
                  /\ UNCHANGED <<returned, installed, cloud, cycleClean, mpc>>
    /\ UNCHANGED <<platform, expected, server_config, ret, logVars, cleanupVars>>
    /\ UNCHANGED <<trace, runners, runner_diff, cycles, cleanRun, requested>>
    /\ ManagerFrame
    /\ EventFrame

\* A mutant of the exhausted schedule: the wait starts over.
StillbornWaitsOn ==
    /\ mpc = "create_wait"
    /\ Len(curAttempt.replies) = NumWaitingTimes
    /\ attempts' = [attempts EXCEPT ![Len(attempts)].replies = <<>>]
    /\ UNCHANGED <<worldVars, mpc, ret, logVars, cleanupVars, reconcileVars>>
    /\ UNCHANGED <<requested, returned, installed>>
    /\ ManagerFrame
    /\ EventFrame

\* The schedule is exhausted: the runner is stillborn.
Stillborn ==
    /\ mpc = "create_wait"
    /\ Len(curAttempt.replies) = NumWaitingTimes
    /\ attempts' = SetResult(attempts, "stillborn")
    /\ mpc' = "stillborn_platform"
    /\ cycleClean' = FALSE
    /\ UNCHANGED <<worldVars, ret, logVars, cleanupVars>>
    /\ UNCHANGED <<trace, runners, runner_diff, cycles, cleanRun, requested, returned, installed>>
    /\ ManagerFrame
    /\ EventFrame

\* Stillborn runner: platform.delete_runner ...
StillbornPlatform ==
    /\ mpc = "stillborn_platform"
    /\ \E ok \in BOOLEAN : PlatformDelete(curAttempt.id, ok)
    /\ mpc' = "stillborn_cloud"
    /\ UNCHANGED <<expected, server_config, ret, cleanupVars>>
    /\ UNCHANGED <<trace, runners, runner_diff, cycles, cleanRun, createVars>>
    /\ ManagerFrame
    /\ EventFrame

\* ... and cloud.delete.
StillbornCloud ==
    /\ mpc = "stillborn_cloud"
    /\ \E ssh \in BOOLEAN, delOk \in BOOLEAN : delete_runner(curAttempt.id, ssh, delOk)
    /\ mpc' = "create_next"
    /\ UNCHANGED <<expected, server_config, ret, cleanupVars>>
    /\ UNCHANGED <<trace, runners, runner_diff, cycles, cleanRun, createVars>>
    /\ ManagerFrame
    /\ EventFrame

\* create_runners returns the list of the runners that became ready.
CreateReturn ==
    /\ mpc = "create_next"
    /\ Len(attempts) = requested
    /\ mpc' = IF ret = "reconcile" THEN "reconcile_done" ELSE "create_done"
    /\ UNCHANGED <<worldVars, ret, logVars, cleanupVars, reconcileVars, createVars>>
    /\ ManagerFrame
    /\ EventFrame

\* MissingServerConfigError leaves create_runners: the call is aborted and
\* no runner is returned. Whether the registration of the runner being
\* created is undone first is not fixed, so both are taken.
CreateAborted ==
    /\ mpc = "create_aborted"
    /\ \/ UNCHANGED <<cloud, platform, logVars, cycleClean>>
       \/ \E ok \in BOOLEAN : PlatformDelete(curAttempt.id, ok)
    /\ attempts' = SetResult(attempts, "missing_config")
    /\ mpc' = IF ret = "reconcile" THEN "missing_config" ELSE "create_done"
    /\ UNCHANGED <<expected, server_config, ret, cleanupVars>>
    /\ UNCHANGED <<trace, runners, runner_diff, cycles, cleanRun, requested, returned, installed>>
    /\ ManagerFrame
    /\ EventFrame

\* except MissingServerConfigError: logging.exception("Unable to spawn runner
\* due to missing server configuration, ..."); the reconcile goes on to its
\* return.
ReconcileMissingServerConfig ==
    /\ mpc = "missing_config"
    /\ trace' = Append(trace, "log_missing_server_config")
    /\ mpc' = "reconcile_done"
    /\ UNCHANGED <<worldVars, ret, logVars, cleanupVars, createVars>>
    /\ UNCHANGED <<runners, runner_diff, cycles, cycleClean, cleanRun>>
    /\ ManagerFrame
    /\ EventFrame

CreateSteps ==
    \/ CreateNext
    \/ CreateCredential
    \/ CreateCloud
    \/ CreateFailed
    \/ ReadinessPoll
    \/ Stillborn
    \/ StillbornPlatform
    \/ StillbornCloud
    \/ CreateReturn

(***************************************************************************)
(* RunnerScaler.reconcile: one branch, then the Reconciliation metric.     *)
(***************************************************************************)
\* reconcile() calls made.
MaxCalls == 2

\* Largest max_quantity.
MaxQuantity == 2

ReactiveConfigs == {"none", "config"}

\* What a branch can raise.
Raisable == {"CloudError", "other"}

ScalerFrame == UNCHANGED <<consumerVars, httpVars, managerVars, metricVars, eventVars, poolVars,
                           healthVars, removalVars, flushVars>>

ScalerInit ==
    /\ reactive_config \in ReactiveConfigs
    /\ max_quantity \in 0..MaxQuantity
    /\ spc = "idle"
    /\ calls = 0
    /\ branch = <<>>
    /\ branchEnd = "none"
    /\ raised = "none"
    /\ listing = "none"
    /\ issueCalls = 0
    /\ sink = "none"
    /\ metrics = <<>>
    /\ history = <<>>

\* reconcile() begins: metric_stats = {}, start_timestamp,
\* expected_runner_quantity = self._base_quantity.
ScalerReconcile ==
    /\ spc = "idle"
    /\ calls < MaxCalls
    /\ calls' = calls + 1
    /\ branch' = <<>>
    /\ branchEnd' = "none"
    /\ raised' = "none"
    /\ listing' = "none"
    /\ issueCalls' = 0
    /\ sink' = "none"
    /\ spc' = "choose"
    /\ UNCHANGED <<reactive_config, max_quantity, metrics, history>>
    /\ ScalerFrame

\* A mutant of the choice: base mode runs first whatever the configuration,
\* and the reactive branch is entered on top of it.
ScalerChooseBoth ==
    /\ spc = "choose"
    /\ branch' = IF reactive_config # "none"
                 THEN <<[kind |-> "base", quantity |-> expected],
                        [kind |-> "reactive", quantity |-> max_quantity]>>
                 ELSE <<[kind |-> "base", quantity |-> expected]>>
    /\ spc' = "branch"
    /\ UNCHANGED <<reactive_config, max_quantity, calls, branchEnd, raised, listing,
                   issueCalls, sink, metrics, history>>
    /\ ScalerFrame

\* if self._reactive_config is not None:
\*     reactive_runner_manager.reconcile(expected_quantity=self._max_quantity, ...)
\* else:
\*     self._reconcile_non_reactive(self._base_quantity)
ScalerChoose ==
    /\ spc = "choose"
    /\ branch' = IF reactive_config # "none"
                 THEN Append(branch, [kind |-> "reactive", quantity |-> max_quantity])
                 ELSE Append(branch, [kind |-> "base", quantity |-> expected])
    /\ spc' = "branch"
    /\ UNCHANGED <<reactive_config, max_quantity, calls, branchEnd, raised, listing,
                   issueCalls, sink, metrics, history>>
    /\ ScalerFrame

\* The branch returns its result.
ScalerBranchReturn ==
    /\ spc = "branch"
    /\ branchEnd' = "returned"
    /\ spc' = "finally"
    /\ UNCHANGED <<reactive_config, max_quantity, calls, branch, raised, listing,
                   issueCalls, sink, metrics, history>>
    /\ ScalerFrame

\* A mutant of the raising branch: the exception leaves reconcile() at once.
ScalerBranchRaiseNoFinally ==
    /\ spc = "branch"
    /\ \E e \in Raisable : raised' = e
    /\ branchEnd' = "raised"
    /\ spc' = "exit"
    /\ UNCHANGED <<reactive_config, max_quantity, calls, branch, listing,
                   issueCalls, sink, metrics, history>>
    /\ ScalerFrame

\* The branch raises: a CloudError is caught and turned into ReconcileError,
\* anything else propagates; the finally block runs in both cases.
ScalerBranchRaise ==
    /\ spc = "branch"
    /\ \E e \in Raisable : raised' = e
    /\ branchEnd' = "raised"
    /\ spc' = "finally"
    /\ UNCHANGED <<reactive_config, max_quantity, calls, branch, listing,
                   issueCalls, sink, metrics, history>>
    /\ ScalerFrame

\* finally: runner_list = self._manager.get_runners(). The call is outside
\* the try: when it raises, its exception replaces the one in flight (the
\* ReconcileError or the exception of the branch, which stays behind as its
\* context) and the rest of the finally block is skipped.
ScalerFinallyList ==
    /\ spc = "finally"
    /\ \/ /\ listing' = "ok"
          /\ spc' = "metric"
       \/ /\ listing' = "failed"
          /\ spc' = "exit"
    /\ UNCHANGED <<reactive_config, max_quantity, calls, branch, branchEnd, raised,
                   issueCalls, sink, metrics, history>>
    /\ ScalerFrame

\* A Reconciliation event: expected_runners is expected_runner_quantity,
\* which reconcile() sets to self._base_quantity in both modes.
Reconciliation(call, kind) ==
    [call |-> call, expected_runners |-> expected, mode |-> kind]

\* _issue_reconciliation_metric: one issue_event call; IssueMetricEventError
\* is caught and logged, and then the log has no event of this call.
issue_reconciliation_metric ==
    /\ spc = "metric"
    /\ issueCalls' = issueCalls + 1
    /\ \/ /\ sink' = "ok"
          /\ metrics' = Append(metrics, Reconciliation(calls, branch[Len(branch)].kind))
       \/ /\ sink' = "IssueMetricEventError"
          /\ UNCHANGED metrics
    /\ spc' = "exit"
    /\ UNCHANGED <<reactive_config, max_quantity, calls, branch, branchEnd, raised,
                   listing, history>>
    /\ ScalerFrame

\* The events of the metric log issued by the k-th call.
EventsOf(k) == {j \in 1..Len(metrics) : metrics[j].call = k}

\* A mutant of the exit: no except clause, the CloudError of the branch
\* leaves reconcile() as it is.
ScalerExitNoWrap ==
    /\ spc = "exit"
    /\ history' = Append(history,
                         [result  |-> IF listing # "failed" /\ raised = "none"
                                      THEN "returned" ELSE "raised",
                          branch  |-> branch,
                          branchEnd |-> branchEnd,
                          raised  |-> raised,
                          listing |-> listing,
                          issueCalls |-> issueCalls,
                          sink    |-> sink,
                          events  |-> Cardinality(EventsOf(calls))])
    /\ spc' = "idle"
    /\ UNCHANGED <<reactive_config, max_quantity, calls, branch, branchEnd, raised,
                   listing, issueCalls, sink, metrics>>
    /\ ScalerFrame

\* reconcile() returns reconcile_diff, or raises: the exception of
\* get_runners() when the finally block raised, else ReconcileError (from a
\* CloudError of the branch), else the exception of the branch.
ScalerExit ==
    /\ spc = "exit"
    /\ history' = Append(history,
                         [result  |-> IF listing = "failed" THEN "raised"
                                      ELSE IF raised = "none" THEN "returned"
                                      ELSE IF raised = "CloudError"
                                           THEN "ReconcileError" ELSE "raised",
                          branch  |-> branch,
                          branchEnd |-> branchEnd,
                          raised  |-> raised,
                          listing |-> listing,
                          issueCalls |-> issueCalls,
                          sink    |-> sink,
                          events  |-> Cardinality(EventsOf(calls))])
    /\ spc' = "idle"
    /\ UNCHANGED <<reactive_config, max_quantity, calls, branch, branchEnd, raised,
                   listing, issueCalls, sink, metrics>>
    /\ ScalerFrame

ScalerNext ==
    \/ ScalerReconcile
    \/ ScalerChoose
    \/ ScalerBranchReturn
    \/ ScalerBranchRaise
    \/ ScalerFinallyList
    \/ issue_reconciliation_metric
    \/ ScalerExit

(***************************************************************************)
(* _issue_reconciliation_metric: the Reconciliation event of a runner list *)
(* and of the metric stats of the cycle.                                   *)
(***************************************************************************)
\* Runners of a runner list.
MaxListed == 2

\* Largest count of one event name in the metric stats.
MaxEvents == 2

RunnerNames == 1..MaxListed

\* GitHubRunnerState, and None for a runner the platform does not report.
GitHubRunnerStates == {"BUSY", "IDLE", "OFFLINE", "none"}

HealthStates == {"HEALTHY", "UNHEALTHY", "UNKNOWN"}

RunnerInstances == [github_state : GitHubRunnerStates, health : HealthStates]

RunnerLists == UNION {[S -> RunnerInstances] : S \in SUBSET RunnerNames}

\* IssuedMetricEventsStats: a dict from the event types that were issued to
\* their counts; an event type that was not issued has no key.
MetricEventNames == {"RunnerStart", "RunnerStop"}

MetricStats == UNION {[S -> 1..MaxEvents] : S \in SUBSET MetricEventNames}

\* dict.get(key, default)
DictGet(d, key, default) == IF key \in DOMAIN d THEN d[key] ELSE default

\* A mutant of the event: healthy offline runners are not available.
ReconciliationEventIdleOnly(data) ==
    LET idle_runners == {n \in DOMAIN data.runner_list :
                            data.runner_list[n].github_state = "IDLE"}
        active_runners == {n \in DOMAIN data.runner_list :
                              data.runner_list[n].github_state = "BUSY"}
    IN [crashed_runners  |-> DictGet(data.metric_stats, "RunnerStart", 0)
                               - DictGet(data.metric_stats, "RunnerStop", 0),
        idle_runners     |-> Cardinality(idle_runners),
        active_runners   |-> Cardinality(active_runners),
        expected_runners |-> data.expected_runner_quantity]

\* The metric_events.Reconciliation built by _issue_reconciliation_metric
\* (timestamp, flavor and duration left out).
ReconciliationEvent(data) ==
    LET idle_runners == {n \in DOMAIN data.runner_list :
                            data.runner_list[n].github_state = "IDLE"}
        offline_healthy_runners ==
            {n \in DOMAIN data.runner_list :
                /\ data.runner_list[n].github_state = "OFFLINE"
                /\ data.runner_list[n].health = "HEALTHY"}
        available_runners == idle_runners \cup offline_healthy_runners
        active_runners == {n \in DOMAIN data.runner_list :
                              data.runner_list[n].github_state = "BUSY"}
    IN [crashed_runners  |-> DictGet(data.metric_stats, "RunnerStart", 0)
                               - DictGet(data.metric_stats, "RunnerStop", 0),
        idle_runners     |-> Cardinality(available_runners),
        active_runners   |-> Cardinality(active_runners),
        expected_runners |-> data.expected_runner_quantity]

\* _ReconcileMetricData as reconcile() fills it in its finally block:
\* expected_runner_quantity is self._base_quantity.
ReconcileMetricData ==
    [metric_stats |-> metric_stats,
     runner_list  |-> runner_list,
     expected_runner_quantity |-> expected]

\* The state at the call of _issue_reconciliation_metric: any runner list
\* returned by get_runners(), any metric stats of the branch ({} when the
\* branch raised), any base_quantity.
MetricInit ==
    /\ runner_list \in RunnerLists
    /\ metric_stats \in MetricStats
    /\ issued = <<>>
    /\ metricError = FALSE
    /\ runner_info = <<>>

\* metric_events.issue_event(metric_events.Reconciliation(...)): the sink
\* takes the event, or raises IssueMetricEventError, which is logged.
IssueReconciliation ==
    /\ issued = <<>>
    /\ ~metricError
    /\ \/ /\ issued' = <<ReconciliationEvent(ReconcileMetricData)>>
          /\ UNCHANGED metricError
       \/ /\ metricError' = TRUE
          /\ UNCHANGED issued
    /\ UNCHANGED <<runner_list, metric_stats, runner_info>>
    /\ UNCHANGED <<consumerVars, httpVars, managerVars, scalerVars, eventVars, poolVars,
                   healthVars, removalVars, flushVars>>

MetricNext == IssueReconciliation

(***************************************************************************)
(* Reactive consumer pool: reconcile(quantity) of reactive/runner_manager. *)
(***************************************************************************)
\* Consumer processes alive when the pool reconcile is called.
MaxProcs == 3

\* Largest quantity asked of the pool.
MaxPool == 3

PoolFrame == UNCHANGED <<consumerVars, httpVars, managerVars, scalerVars, metricVars, eventVars,
                         healthVars, removalVars, flushVars>>

\* The elements of a set of pids in ascending order, as ps lists them.
RECURSIVE SortedSeq(_)
SortedSeq(S) == IF S = {} THEN <<>> ELSE <<Min(S)>> \o SortedSeq(S \ {Min(S)})

PoolInit ==
    /\ pids \in SUBSET (1..MaxProcs)
    /\ quantity \in 0..MaxPool
    /\ ppc = "idle"
    /\ listedPids = <<>>
    /\ delta = 0
    /\ spawnCalls = 0
    /\ killCalls = <<>>
    /\ lookupErrors = 0

\* delta = quantity - len(pids)
PoolDelta(q, ps) == q - Len(ps)

\* reconcile(quantity) begins: the ps command lists the consumer processes,
\* or fails and ReactiveRunnerError is raised.
PoolReconcile ==
    /\ ppc = "idle"
    /\ \/ /\ listedPids' = SortedSeq(pids)
          /\ delta' = PoolDelta(quantity, SortedSeq(pids))
          /\ ppc' = "adjust"
       \/ /\ ppc' = "ReactiveRunnerError"
          /\ UNCHANGED <<listedPids, delta>>
    /\ UNCHANGED <<pids, quantity, spawnCalls, killCalls, lookupErrors>>
    /\ PoolFrame

\* delta > 0: one subprocess.Popen per missing process.
PoolSpawn ==
    /\ ppc = "adjust"
    /\ delta > 0
    /\ spawnCalls < delta
    /\ spawnCalls' = spawnCalls + 1
    /\ pids' = pids \cup {Min({p \in 1..(Cardinality(pids) + 1) : p \notin pids})}
    /\ UNCHANGED <<quantity, ppc, listedPids, delta, killCalls, lookupErrors>>
    /\ PoolFrame

\* A mutant of the kill: ProcessLookupError ends the loop.
PoolKillStopsOnLookupError ==
    /\ ppc = "adjust"
    /\ delta < 0
    /\ Len(killCalls) < -delta
    /\ LET p == listedPids[Len(killCalls) + 1]
       IN /\ killCalls' = Append(killCalls, p)
          /\ \/ /\ pids' = pids \ {p}
                /\ UNCHANGED <<lookupErrors, ppc, delta>>
             \/ /\ pids' = pids \ {p}
                /\ lookupErrors' = lookupErrors + 1
                /\ ppc' = "done"
                /\ delta' = 0 - Len(killCalls')
    /\ UNCHANGED <<quantity, listedPids, spawnCalls>>
    /\ PoolFrame

\* delta < 0: os.kill(pid, SIGTERM) for the first -delta listed processes; a
\* process that has exited since ps ran makes os.kill raise
\* ProcessLookupError, which is ignored.
PoolKill ==
    /\ ppc = "adjust"
    /\ delta < 0
    /\ Len(killCalls) < -delta
    /\ LET p == listedPids[Len(killCalls) + 1]
       IN /\ killCalls' = Append(killCalls, p)
          /\ pids' = pids \ {p}
          /\ \/ UNCHANGED lookupErrors
             \/ lookupErrors' = lookupErrors + 1
    /\ UNCHANGED <<quantity, ppc, listedPids, delta, spawnCalls>>
    /\ PoolFrame

\* return delta
PoolReturn ==
    /\ ppc = "adjust"
    /\ \/ delta > 0 /\ spawnCalls = delta
       \/ delta < 0 /\ Len(killCalls) = -delta
       \/ delta = 0
    /\ ppc' = "done"
    /\ UNCHANGED <<pids, quantity, listedPids, delta, spawnCalls, killCalls, lookupErrors>>
    /\ PoolFrame

PoolNext ==
    \/ PoolReconcile
    \/ PoolSpawn
    \/ PoolKill
    \/ PoolReturn

(***************************************************************************)
(* Job manager platform: get_runners_health(requested_runners).            *)
(***************************************************************************)
\* Identities asked about in one call.
MaxRequested == 2

HealthFrame == UNCHANGED <<consumerVars, httpVars, managerVars, scalerVars, metricVars,
                           eventVars, poolVars, removalVars, flushVars>>

\* RunnerIdentity values, told apart by metadata.runner_id.
RunnerIdentities == 1..MaxRequested

\* Status values of V1JobsJobIdHealthGet200Response.
JobStatuses == {"PENDING", "IN_PROGRESS", "COMPLETED", "FAILED"}

ApiException == [kind |-> "ApiException", status |-> "none", deletable |-> FALSE]

NotFoundException == [kind |-> "NotFoundException", status |-> "none", deletable |-> FALSE]

\* What ApiClient.call_api gives for one health query: a response, or one
\* of the two exceptions.
SideEffects ==
    [kind : {"response"}, status : JobStatuses, deletable : BOOLEAN]
        \cup {ApiException, NotFoundException}

\* Lists of distinct identities of at most MaxRequested elements.
IdentityLists ==
    {ids \in UNION {[1..n -> RunnerIdentities] : n \in 0..MaxRequested} :
        \A a, b \in DOMAIN ids : a # b => ids[a] # ids[b]}

HealthInit ==
    /\ identities \in IdentityLists
    /\ side_effects \in [DOMAIN identities -> SideEffects]
    /\ requested_runners = <<>>
    /\ failed_requested_runners = <<>>
    /\ responded = FALSE

\* PlatformRunnerHealth built from a health response of the job manager:
\* a pending job is not online, and a job is busy until it is deletable.
get_runner_health(identity, response) ==
    [identity |-> identity,
     online |-> response.status # "PENDING",
     busy |-> ~response.deletable,
     deletable |-> response.deletable]

\* PlatformRunnerHealth of an identity the job manager does not know.
NotFoundHealth(identity) ==
    [identity |-> identity, online |-> FALSE, busy |-> FALSE, deletable |-> FALSE]

\* A mutant of the classification: NotFoundException, a subclass of
\* ApiException, is handled as a failed query.
QueryFailedAnyException(reply) == reply.kind # "response"

\* The query of one identity failed: the client raised ApiException.
QueryFailed(reply) == reply.kind = "ApiException"

\* Number of identities get_runners_health has dealt with.
Queried == Len(requested_runners) + Len(failed_requested_runners)

\* One turn of the loop of get_runners_health over the requested identities.
GetRunnersHealthQuery ==
    /\ ~responded
    /\ Queried < Len(identities)
    /\ LET identity == identities[Queried + 1]
           reply == side_effects[Queried + 1]
       IN  IF QueryFailed(reply)
           THEN /\ failed_requested_runners' = Append(failed_requested_runners, identity)
                /\ UNCHANGED requested_runners
           ELSE /\ requested_runners' =
                      Append(requested_runners,
                             IF reply.kind = "NotFoundException"
                             THEN NotFoundHealth(identity)
                             ELSE get_runner_health(identity, reply))
                /\ UNCHANGED failed_requested_runners
    /\ UNCHANGED <<identities, side_effects, responded>>
    /\ HealthFrame

\* return RunnersHealthResponse(requested_runners, failed_requested_runners)
GetRunnersHealthReturn ==
    /\ ~responded
    /\ Queried = Len(identities)
    /\ responded' = TRUE
    /\ UNCHANGED <<identities, side_effects, requested_runners, failed_requested_runners>>
    /\ HealthFrame

HealthNext ==
    \/ GetRunnersHealthQuery
    \/ GetRunnersHealthReturn

(***************************************************************************)
(* OpenStackRunnerManager._delete_runner, step by step, for each unhealthy *)
(* instance of a cleanup.                                                  *)
(***************************************************************************)
\* Unhealthy instances of one cleanup.
MaxUnhealthy == 2

RemovalFrame == UNCHANGED <<consumerVars, httpVars, managerVars, scalerVars, metricVars,
                            eventVars, poolVars, healthVars, flushVars>>

UnhealthyIds == 1..MaxUnhealthy

RemovalInit ==
    /\ unhealthy \in SUBSET UnhealthyIds
    /\ instance = 0
    /\ dpc = "idle"
    /\ servers = unhealthy
    /\ ssh_conn = [i \in unhealthy |-> "none"]
    /\ removal = [i \in unhealthy |-> "none"]
    /\ deleteCalls = [i \in unhealthy |-> 0]
    /\ deleted = [i \in unhealthy |-> "none"]
    /\ pulled_metrics = {}
    /\ logged = {}

\* for runner in runners.unhealthy: self._delete_runner(runner, remove_token)
DeleteRunnerCall ==
    /\ dpc = "idle"
    /\ unhealthy # {}
    /\ instance' = Min(unhealthy)
    /\ unhealthy' = unhealthy \ {Min(unhealthy)}
    /\ dpc' = "ssh"
    /\ UNCHANGED <<servers, ssh_conn, removal, deleteCalls, deleted, pulled_metrics, logged>>
    /\ RemovalFrame

\* A mutant of the SSH failure: SSHError is not caught and leaves
\* _delete_runner before delete_instance.
GetSshConnectionUncaught ==
    /\ dpc = "ssh"
    /\ \/ /\ ssh_conn' = [ssh_conn EXCEPT ![instance] = "ok"]
          /\ dpc' = "pull"
       \/ /\ ssh_conn' = [ssh_conn EXCEPT ![instance] = "SSHError"]
          /\ dpc' = "return"
    /\ UNCHANGED <<unhealthy, instance, servers, removal, deleteCalls, deleted,
                   pulled_metrics, logged>>
    /\ RemovalFrame

\* A mutant of the order: with a connection the removal script is run at
\* once, before any metric is pulled.
GetSshConnectionThenScript ==
    /\ dpc = "ssh"
    /\ \/ /\ ssh_conn' = [ssh_conn EXCEPT ![instance] = "ok"]
          /\ dpc' = "script"
          /\ UNCHANGED logged
       \/ /\ ssh_conn' = [ssh_conn EXCEPT ![instance] = "SSHError"]
          /\ logged' = logged \cup {<<instance, "Failed to get SSH connection">>,
                                    <<instance, "Skipping runner remove script">>}
          /\ dpc' = "delete"
    /\ UNCHANGED <<unhealthy, instance, servers, removal, deleteCalls, deleted, pulled_metrics>>
    /\ RemovalFrame

\* ssh_conn = self._openstack_cloud.get_ssh_connection(instance); SSHError is
\* caught by the outer try: two log records, and on to delete_instance.
GetSshConnection ==
    /\ dpc = "ssh"
    /\ \/ /\ ssh_conn' = [ssh_conn EXCEPT ![instance] = "ok"]
          /\ dpc' = "pull"
          /\ UNCHANGED logged
       \/ /\ ssh_conn' = [ssh_conn EXCEPT ![instance] = "SSHError"]
          /\ logged' = logged \cup {<<instance, "Failed to get SSH connection">>,
                                    <<instance, "Skipping runner remove script">>}
          /\ dpc' = "delete"
    /\ UNCHANGED <<unhealthy, instance, servers, removal, deleteCalls, deleted, pulled_metrics>>
    /\ RemovalFrame

\* pulled_metrics = runner_metrics.pull_runner_metrics(instance_id, ssh_conn)
PullRunnerMetrics ==
    /\ dpc = "pull"
    /\ pulled_metrics' = pulled_metrics \cup {instance}
    /\ dpc' = "script"
    /\ UNCHANGED <<unhealthy, instance, servers, ssh_conn, removal, deleteCalls, deleted, logged>>
    /\ RemovalFrame

\* _run_runner_removal_script: _GithubRunnerRemoveError (a failing script, an
\* SSH exception or a timeout while it runs) is caught by the inner try and
\* logged as a warning.
RunRunnerRemovalScript ==
    /\ dpc = "script"
    /\ \/ /\ removal' = [removal EXCEPT ![instance] = "ok"]
          /\ UNCHANGED logged
       \/ /\ removal' = [removal EXCEPT ![instance] = "_GithubRunnerRemoveError"]
          /\ logged' = logged \cup {<<instance, "Unable to run github runner removal script">>}
    /\ dpc' = "delete"
    /\ UNCHANGED <<unhealthy, instance, servers, ssh_conn, deleteCalls, deleted, pulled_metrics>>
    /\ RemovalFrame

\* self._openstack_cloud.delete_instance(instance.instance_id); OpenStackError
\* is caught and logged.
DeleteInstance ==
    /\ dpc = "delete"
    /\ deleteCalls' = [deleteCalls EXCEPT ![instance] = @ + 1]
    /\ \/ /\ deleted' = [deleted EXCEPT ![instance] = "ok"]
          /\ servers' = servers \ {instance}
          /\ UNCHANGED logged
       \/ /\ deleted' = [deleted EXCEPT ![instance] = "OpenStackError"]
          /\ logged' = logged \cup {<<instance, "Unable to delete openstack instance">>}
          /\ UNCHANGED servers
    /\ dpc' = "return"
    /\ UNCHANGED <<unhealthy, instance, ssh_conn, removal, pulled_metrics>>
    /\ RemovalFrame

\* return pulled_metrics
DeleteRunnerReturn ==
    /\ dpc = "return"
    /\ instance' = 0
    /\ dpc' = "idle"
    /\ UNCHANGED <<unhealthy, servers, ssh_conn, removal, deleteCalls, deleted,
                   pulled_metrics, logged>>
    /\ RemovalFrame

\* The call was made by delete_runners of the runner manager, through
\* delete_runner: after it returns, platform.delete_runner is called for the
\* same runner.
DeleteRunnerThenPlatform ==
    /\ dpc = "return"
    /\ platDel' = BagAdd(platDel, instance)
    /\ instance' = 0
    /\ dpc' = "idle"
    /\ UNCHANGED <<unhealthy, servers, ssh_conn, removal, deleteCalls, deleted,
                   pulled_metrics, logged>>
    /\ UNCHANGED <<worldVars, mpc, ret, cloudDel, pulled, sshFailed, failed, cleanupVars,
                   reconcileVars, createVars>>
    /\ UNCHANGED <<consumerVars, httpVars, scalerVars, metricVars, eventVars, poolVars,
                   healthVars, flushVars>>

RemovalNext ==
    \/ DeleteRunnerCall
    \/ GetSshConnection
    \/ PullRunnerMetrics
    \/ RunRunnerRemovalScript
    \/ DeleteInstance
    \/ DeleteRunnerReturn
    \/ DeleteRunnerThenPlatform

(***************************************************************************)
(* Specifications.                                                         *)
(***************************************************************************)
InitConsumer == ConsumerInit /\ HttpRest /\ CreateInit /\ ScalerRest /\ MetricRest /\ EventRest /\ PoolRest /\ HealthRest /\ RemovalRest /\ FlushRest

SpecConsumer == InitConsumer /\ [][ConsumerNext]_vars

InitHttp == HttpInit /\ ConsumerRest /\ CreateInit /\ ScalerRest /\ MetricRest /\ EventRest /\ PoolRest /\ HealthRest /\ RemovalRest /\ FlushRest

SpecHttp == InitHttp /\ [][HttpNext]_vars

\* The scheduling the liveness of a waiting request rests on: a body that
\* holds the lock runs to its end (the with block and the control loop both
\* release it), and a thread blocked on the lock is not passed over for ever
\* when the lock keeps being released.
HttpFairness ==
    /\ \A t \in Threads : SF_vars(FlushAcquire(t))
    /\ \A t \in Threads : WF_vars(FlushBuild(t))
    /\ \A t \in Threads : WF_vars(FlushBody(t))
    /\ WF_vars(ReconcileRelease)

SpecHttpFair == InitHttp /\ [][HttpNext]_vars /\ HttpFairness

ReconcileNext ==
    \/ reconcile_non_reactive
    \/ CleanupList
    \/ CleanupGhost
    \/ cleanup_begin
    \/ cleanup_delete
    \/ cleanup_finish
    \/ CleanupPlatform
    \/ CleanupReturn
    \/ ReconcileGetRunners
    \/ ReconcileBranch
    \/ DeleteRunnersPick
    \/ DeleteRunnersCloud
    \/ DeleteRunnersPlatform
    \/ DeleteRunnersReturn
    \/ ReconcileReturn
    \/ CreateSteps

SpecReconcile == ReconcileInit /\ [][ReconcileNext]_vars

\* Any starting population, with or without a server configuration.
InitServerConfig ==
    /\ cloud \in UNION {[S -> Outcomes] : S \in SUBSET InitIds}
    /\ platform \in SUBSET InitIds
    /\ \A i \in DOMAIN cloud \ platform : cloud[i] # "healthy"
    /\ expected \in 0..MaxExpected
    /\ server_config \in {"config", "none"}
    /\ ManagerRest
    /\ ConsumerRest
    /\ HttpRest
    /\ ScalerRest
    /\ MetricRest
    /\ EventRest
    /\ PoolRest
    /\ HealthRest
    /\ RemovalRest
    /\ FlushRest

ServerConfigNext ==
    \/ ReconcileNext
    \/ CreateAborted
    \/ ReconcileMissingServerConfig

SpecServerConfig == InitServerConfig /\ [][ServerConfigNext]_vars

CreateRunnersNext == CallCreateRunners \/ CreateSteps

SpecCreate == InitCreate /\ [][CreateRunnersNext]_vars

InitScaler ==
    /\ cloud = NoInstances
    /\ platform = {}
    /\ expected \in 0..MaxExpected
    /\ ManagerRest
    /\ ServerConfigured
    /\ ConsumerRest
    /\ HttpRest
    /\ ScalerInit
    /\ MetricRest
    /\ EventRest
    /\ HealthRest
    /\ RemovalRest
    /\ FlushRest
    /\ PoolRest

SpecScaler == InitScaler /\ [][ScalerNext]_vars

\* Another deployment's runners share the cloud and the platform.
ForeignIds == {0}

\* Any starting population of this manager, next to instances and
\* registrations of another deployment.
InitOwnership ==
    /\ cloud \in UNION {[S \cup ForeignIds -> Outcomes] : S \in SUBSET InitIds}
    /\ platform \in {S \cup ForeignIds : S \in SUBSET InitIds}
    /\ \A i \in DOMAIN cloud \ platform : cloud[i] # "healthy"
    /\ expected \in 0..MaxExpected
    /\ ManagerRest
    /\ ServerConfigured
    /\ ConsumerRest
    /\ HttpRest
    /\ ScalerRest
    /\ MetricRest
    /\ EventRest
    /\ HealthRest
    /\ RemovalRest
    /\ FlushRest
    /\ PoolRest

\* Reconciles (cleanup, then create_runners or delete_runners) and flushes in
\* any order.
OwnershipNext ==
    \/ ReconcileNext
    \/ flush_runners

SpecOwnership == InitOwnership /\ [][OwnershipNext]_vars

\* Any starting population whose runners have run no job, started one or
\* ended one; no event of theirs has been issued yet.
InitEvents ==
    /\ cloud \in UNION {[S -> Outcomes] : S \in SUBSET InitIds}
    /\ platform \in SUBSET InitIds
    /\ \A i \in DOMAIN cloud \ platform : cloud[i] # "healthy"
    /\ expected = 0
    /\ files \in [DOMAIN cloud -> FileStates]
    /\ runnerStart = EmptyBag
    /\ runnerStop = EmptyBag
    /\ ManagerRest
    /\ ServerConfigured
    /\ ConsumerRest
    /\ HttpRest
    /\ ScalerRest
    /\ MetricRest
    /\ PoolRest
    /\ HealthRest
    /\ RemovalRest
    /\ FlushRest

\* Cleanups, on their own or at the end of a flush, one after the other.
EventsNext ==
    \/ flush_runners
    \/ CleanupList
    \/ CleanupGhost
    \/ cleanup_begin
    \/ cleanup_delete
    \/ cleanup_finish
    \/ CleanupPlatform
    \/ CleanupReturn

SpecEvents == InitEvents /\ [][EventsNext]_vars

InitPool ==
    /\ cloud = NoInstances
    /\ platform = {}
    /\ expected = 0
    /\ ManagerRest
    /\ ServerConfigured
    /\ ConsumerRest
    /\ HttpRest
    /\ ScalerRest
    /\ MetricRest
    /\ EventRest
    /\ HealthRest
    /\ RemovalRest
    /\ FlushRest
    /\ PoolInit

SpecPool == InitPool /\ [][PoolNext]_vars

InitMetric ==
    /\ cloud = NoInstances
    /\ platform = {}
    /\ expected \in 0..MaxExpected
    /\ ManagerRest
    /\ ServerConfigured
    /\ ConsumerRest
    /\ HttpRest
    /\ ScalerRest
    /\ MetricInit
    /\ EventRest
    /\ HealthRest
    /\ RemovalRest
    /\ FlushRest
    /\ PoolRest

SpecMetric == InitMetric /\ [][MetricNext]_vars

InitHealth ==
    /\ cloud = NoInstances
    /\ platform = {}
    /\ expected = 0
    /\ ManagerRest
    /\ ServerConfigured
    /\ ConsumerRest
    /\ HttpRest
    /\ ScalerRest
    /\ MetricRest
    /\ EventRest
    /\ PoolRest
    /\ RemovalRest
    /\ FlushRest
    /\ HealthInit

SpecHealth == InitHealth /\ [][HealthNext]_vars

InitRemoval ==
    /\ cloud = NoInstances
    /\ platform = {}
    /\ expected = 0
    /\ ManagerRest
    /\ ServerConfigured
    /\ ConsumerRest
    /\ HttpRest
    /\ ScalerRest
    /\ MetricRest
    /\ EventRest
    /\ PoolRest
    /\ HealthRest
    /\ RemovalInit
    /\ FlushRest

SpecRemoval == InitRemoval /\ [][RemovalNext]_vars

\* create_runners is sequential code: a step that can be taken is taken.
SpecCreateFair == InitCreate /\ [][CreateRunnersNext]_vars /\ WF_vars(CreateSteps)

(***************************************************************************)
(* Properties of the reactive consumer (SpecConsumer).                     *)
(***************************************************************************)
\* The handling of the i-th received message is over.
Ended(i) == i < Len(handled) \/ cpc \in {"get", "done", "crashed", "terminated"}

\* The message is the sentinel, or a dispatch check for its job returned true.
Justified(m) == m.payload.kind = "end" \/ m.picked

\* C1 as amended: a message is acked only if it is the __END__ sentinel or a
\* check_job_been_picked_up call for its job returned true, it is acked at
\* most once and an acked message is never rejected; a message whose handling
\* ran to its end without such a justification is rejected and not acked; the
\* only message left neither acked nor rejected is the one being handled when
\* consume() was ended by an uncaught PlatformApiError or by SIGTERM.
C1_AckOnlyWhenDispatched ==
    \A i \in 1..Len(handled) :
        LET m == handled[i]
        IN /\ m.acks > 0 => (Justified(m) /\ m.acks = 1 /\ m.rejects = 0)
           /\ (Ended(i) /\ ~Justified(m) /\ ~(i = Len(handled) /\ cpc \in {"crashed", "terminated"}))
                  => (m.rejects = 1 /\ m.acks = 0)
           /\ (Ended(i) /\ m.acks = 0 /\ m.rejects = 0)
                  => (i = Len(handled) /\ cpc \in {"crashed", "terminated"})

\* C1, its case: consume() returned after rejecting a message with
\* unsupported labels and acking the next one once a poll of _spawn_runner
\* found its job picked up.
C1_Witness ==
    /\ cpc = "done"
    /\ Len(handled) = 2
    /\ handled[1].rejects = 1 /\ handled[1].acks = 0 /\ ~handled[1].requeued
    /\ handled[2].acks = 1 /\ handled[2].picked /\ handled[2].rejects = 0
    /\ creates = 1
    /\ polls > 1

\* C1 as stated: acked only if justified, and in every other outcome rejected
\* and never acked.
C1_AsStated ==
    \A i \in 1..Len(handled) :
        LET m == handled[i]
        IN /\ m.acks > 0 => Justified(m)
           /\ (Ended(i) /\ ~Justified(m)) => (m.rejects > 0 /\ m.acks = 0)

(***************************************************************************)
(* Properties of the HTTP control surface (SpecHttp).                      *)
(***************************************************************************)
\* C2: at any moment at most one state-mutating body, a flush served over
\* HTTP or the reconcile cycle of the control loop, is running; the lock is
\* held whenever one is.
C2_OneBodyAtATime ==
    /\ BodiesRunning <= 1
    /\ BodiesRunning = 1 => locked

\* C2, its case: one request is inside its flush while another request and
\* the control loop are waiting for the lock.
C2_Witness ==
    \E t \in Threads, u \in Threads :
        /\ t # u
        /\ hpc[t] = "flush"
        /\ hpc[u] = "acquire"
        /\ rpc = "wait"
        /\ locked

(***************************************************************************)
(* Properties of the base-mode reconcile and of cleanup (SpecReconcile).   *)
(***************************************************************************)
CleanupPositions == {"cleanup", "cleanup_ghosts", "cleanup_delete", "cleanup_platform"}

CreatePositions ==
    {"create_next", "create_credential", "create_cloud", "create_failed", "create_wait",
     "stillborn_platform", "stillborn_cloud"}

DeletePositions == {"delete_pick", "delete_cloud", "delete_platform"}

CountHealthy == Cardinality({i \in DOMAIN cloud : cloud[i] = "healthy"})

CountUnknown == Cardinality({i \in DOMAIN cloud : cloud[i] = "unknown"})

ListedWith(h) == {i \in DOMAIN listed : listed[i] = h}

\* C3: within one cycle the steps are cleanup, the return of cleanup, the
\* listing of the surviving runners with the diff, and then at most one of
\* create_runners and delete_runners; while cleanup runs nothing else has been
\* done, and create_runners or delete_runners runs only after the other three.
C3_CleanupThenDiffThenAct ==
    /\ Len(trace) <= 4
    /\ Len(trace) >= 1 => trace[1] = "cleanup"
    /\ Len(trace) >= 2 => trace[2] = "cleanup_returned"
    /\ Len(trace) >= 3 => trace[3] = "get_runners"
    /\ Len(trace) = 4 => trace[4] \in {"create_runners", "delete_runners"}
    /\ mpc \in CleanupPositions => trace = <<"cleanup">>
    /\ mpc \in CreatePositions => trace = <<"cleanup", "cleanup_returned", "get_runners", "create_runners">>
    /\ mpc \in DeletePositions => trace = <<"cleanup", "cleanup_returned", "get_runners", "delete_runners">>

\* C3, its case: a cycle that cleaned up, found runners missing and has
\* created one of them.
C3_Witness ==
    /\ mpc = "create_next"
    /\ ret = "reconcile"
    /\ returned # {}
    /\ trace = <<"cleanup", "cleanup_returned", "get_runners", "create_runners">>

C6_DeletesExactlyUnhealthy ==
    mpc \in {"cleanup_platform", "cleanup_done"} =>
        /\ \A i \in DOMAIN listed :
              CopiesIn(i, cloudDel) = IF listed[i] = "unhealthy" THEN 1 ELSE 0
        /\ BagToSet(cloudDel) \subseteq DOMAIN listed
        /\ pulled = ListedWith("unhealthy") \ sshFailed
        /\ sshFailed \subseteq ListedWith("unhealthy")

\* C6, its case: a cleanup over an unhealthy instance and one of unknown
\* health that deleted the first with its metrics pulled and kept the second.
C6_Witness ==
    /\ mpc = "cleanup_done"
    /\ \E i \in DOMAIN listed, j \in DOMAIN listed :
          /\ listed[i] = "unhealthy"
          /\ listed[j] = "unknown"
          /\ i \in pulled
          /\ i \notin DOMAIN cloud
          /\ j \in DOMAIN cloud

\* C6 as stated: one cloud delete for exactly the unhealthy instances, and
\* metrics pulled for exactly those.
C6_AsStated ==
    mpc \in {"cleanup_platform", "cleanup_done"} =>
        /\ \A i \in DOMAIN listed :
              CopiesIn(i, cloudDel) = IF listed[i] = "unhealthy" THEN 1 ELSE 0
        /\ pulled = ListedWith("unhealthy")

\* C7: for every non-requested identity cleanup calls platform delete_runner
\* (once) and issues no cloud delete; with an empty cloud inventory it issues
\* no cloud delete at all.
C7_GhostsLeavePlatformOnly ==
    mpc \in {"cleanup_platform", "cleanup_done"} =>
        /\ \A g \in nonRequested : CopiesIn(g, platDel) = 1 /\ CopiesIn(g, cloudDel) = 0
        /\ DOMAIN listed = {} => cloudDel = EmptyBag

\* C7, its case: a cleanup that found ghost registrations and an empty cloud.
C7_Witness ==
    /\ mpc = "cleanup_done"
    /\ Cardinality(nonRequested) = MaxInit
    /\ DOMAIN listed = {}
    /\ \A g \in nonRequested : CopiesIn(g, platDel) = 1
    /\ cloudDel = EmptyBag

(***************************************************************************)
(* Properties of create_runners (SpecCreate).                              *)
(***************************************************************************)
\* The k-th runner of the call has been dealt with.
Finished(k) == k < Len(attempts) \/ mpc \in {"create_next", "create_done", "reconcile_done"}

\* C8: when the cloud fails to create a runner whose credential the platform
\* has issued, platform delete_runner is called exactly once for that
\* identity, platform deletes are made for no runner that was created and
\* became ready, the runner is not returned, and the call goes on until every
\* requested runner has been tried.
C8_CloudFailureUndoesRegistration ==
    /\ \A k \in 1..Len(attempts) :
          LET a == attempts[k]
          IN /\ (Finished(k) /\ a.cloud \in {"RunnerCreateError", "RunnerStartError"})
                    => /\ a.result = "cloud_failed"
                       /\ CopiesIn(a.id, platDel) = 1
                       /\ a.id \notin returned
             /\ (a.result \in {"ready", "credential_failed"} \/ a.cloud = "none")
                    => CopiesIn(a.id, platDel) = 0
    /\ BagToSet(platDel) \subseteq {attempts[k].id : k \in 1..Len(attempts)}
    /\ mpc = "create_done" => Len(attempts) = requested

\* C8, its case: a call for two runners whose first launch failed and whose
\* second runner was created and returned.
C8_Witness ==
    /\ mpc = "create_done"
    /\ Len(attempts) = 2
    /\ attempts[1].cloud = "RunnerCreateError"
    /\ CopiesIn(attempts[1].id, platDel) = 1
    /\ attempts[2].result = "ready"
    /\ returned = {attempts[2].id}

\* C9: the polls of a runner follow the schedule, one per entry, and stop at
\* the first reply with online=true or deletable=true: no reply before the
\* last one is such a reply, the runner is ready exactly when its last reply
\* is, and a ready runner is in the returned list.
C9_PollsStopAtFirstReady ==
    \A k \in 1..Len(attempts) :
        LET a == attempts[k]
            n == Len(a.replies)
        IN /\ n <= NumWaitingTimes
           /\ \A j \in 1..(n - 1) : ~(a.replies[j].online \/ a.replies[j].deletable)
           /\ a.result = "ready" <=> (n > 0 /\ (a.replies[n].online \/ a.replies[n].deletable))
           /\ a.result = "ready" => a.id \in returned
           /\ n > 0 => a.cloud = "ok"

\* C9, its case: a runner that was offline at the first poll and deletable,
\* not online, at the second, and is returned.
C9_Witness ==
    \E k \in 1..Len(attempts) :
        LET a == attempts[k]
        IN /\ a.result = "ready"
           /\ Len(a.replies) = 2
           /\ ~a.replies[1].online /\ ~a.replies[1].deletable
           /\ a.replies[2].deletable /\ ~a.replies[2].online
           /\ a.id \in returned

C11_ReadinessWaitIsBounded ==
    /\ [](\A k \in 1..Len(attempts) : Len(attempts[k].replies) <= NumWaitingTimes)
    /\ (mpc = "create_next") ~> (mpc = "create_done")

\* C11, its case: a call returned after every runner it asked for was polled
\* through the whole schedule.
C11_Witness ==
    /\ mpc = "create_done"
    /\ Len(attempts) = MaxCreate
    /\ \A k \in 1..Len(attempts) : Len(attempts[k].replies) = NumWaitingTimes

(***************************************************************************)
(* Steps of the reactive consumer (SpecConsumer).                          *)
(***************************************************************************)
\* The labels of the job, case-folded, are all among the supported labels,
\* case-folded.
LabelsSupported(m) ==
    \A l \in m.payload.labels : \E sl \in supported : lower(l) = lower(sl)

C13_PoisonRejectedAndRaised ==
    \A i \in 1..Len(handled) :
        LET m == handled[i]
        IN m.payload.kind = "invalid" =>
              /\ i = Len(handled)
              /\ m.acks = 0 /\ ~m.picked /\ ~m.requeued
              /\ cpc \in {"got", "crashed", "terminated"}
              /\ m.rejects = (IF cpc = "crashed" THEN 1 ELSE 0)
              /\ creates = 0

\* C13, its case: consume() has ended on a rejected poison message while
\* another message waits in the queue.
C13_Witness ==
    /\ cpc = "crashed"
    /\ Len(handled) = 1
    /\ handled[1].payload.kind = "invalid"
    /\ handled[1].rejects = 1
    /\ ~handled[1].requeued
    /\ queue # <<>>

\* C13 as stated: the poison message is rejected without requeue and the
\* consumer continues with the next message.
C13_AsStated ==
    \A i \in 1..Len(handled) :
        (handled[i].payload.kind = "invalid" /\ handled[i].rejects > 0)
            => (~handled[i].requeued /\ cpc # "crashed")

\* C14: the step consume() takes on the sentinel acks it once and ends the
\* call, with no message received, no dispatch check made and no runner
\* created by that step or after it; the sentinel is the last message of the
\* call, is never rejected and no dispatch check is made for it.
C14_SentinelAckedAndExit ==
    /\ [][(cpc = "got" /\ cur.payload.kind = "end" /\ cpc' # "terminated") =>
             /\ handled' = [handled EXCEPT ![Len(handled)].acks = 1]
             /\ cpc' = "done"
             /\ queue' = queue /\ creates' = creates /\ polls' = polls]_vars
    /\ [][cpc = "done" => UNCHANGED consumerVars]_vars
    /\ [](\A i \in 1..Len(handled) :
             handled[i].payload.kind = "end" =>
                 /\ i = Len(handled)
                 /\ handled[i].rejects = 0 /\ ~handled[i].picked
                 /\ cpc \in {"got", "done", "terminated"}
                 /\ handled[i].acks = (IF cpc = "done" THEN 1 ELSE 0))

\* C14, its case: consume() returned on the acked sentinel with a message
\* still in the queue and no runner created.
C14_Witness ==
    /\ cpc = "done"
    /\ handled # <<>>
    /\ cur.payload.kind = "end"
    /\ cur.acks = 1
    /\ queue # <<>>
    /\ creates = 0

\* C15: the step consume() takes at the first dispatch check either finds the
\* job picked up, and then acks the message once, creates no runner and leads
\* to the next get, or leaves the message unsettled; a message acked at the
\* first check is never rejected, and no runner is created while the consumer
\* goes from message to message.
C15_PickedUpAckedNoRunner ==
    /\ [][(cpc = "check" /\ cpc' # "terminated") =>
             \/ /\ handled' = [handled EXCEPT ![Len(handled)].picked = TRUE,
                                              ![Len(handled)].acks = 1]
                /\ cpc' = "get"
                /\ creates' = creates /\ polls' = polls /\ queue' = queue
             \/ /\ handled' = handled
                /\ cpc' \in {"spawn", "crashed"}]_vars
    /\ [](\A i \in 1..Len(handled) :
             (i < Len(handled) /\ handled[i].picked) =>
                 (handled[i].acks = 1 /\ handled[i].rejects = 0))
    /\ [](cpc \in {"get", "got", "validate", "check"} => creates = 0)

\* C15, its case: the consumer has received a second message after acking
\* the first at its dispatch check, with no runner created.
C15_Witness ==
    /\ cpc = "got"
    /\ Len(handled) = 2
    /\ handled[1].picked
    /\ handled[1].acks = 1
    /\ handled[1].rejects = 0
    /\ creates = 0

\* C16: the step _spawn_runner takes at create_runners makes one call and
\* then either goes on to the polls with the message unsettled or, on an
\* empty result, rejects the message once with requeue and ends consume()
\* with no poll made; a message rejected with requeue is never acked.
C16_EmptyCreateRequeues ==
    /\ [][(cpc = "spawn" /\ cpc' # "terminated") =>
             /\ creates' = creates + 1
             /\ \/ /\ handled' = handled
                   /\ cpc' = "poll"
                   /\ polls' = 0
                   /\ queue' = queue
                \/ /\ handled' = [handled EXCEPT ![Len(handled)].rejects = 1,
                                                 ![Len(handled)].requeued = TRUE]
                   /\ cpc' = "done"
                   /\ polls' = 0
                   /\ queue' = Append(queue, cur.payload)]_vars
    /\ [](\A i \in 1..Len(handled) :
             handled[i].requeued =>
                 /\ handled[i].acks = 0 /\ ~handled[i].picked
                 /\ handled[i].rejects = 1
                 /\ i = Len(handled)
                 /\ cpc = "done"
                 /\ creates = 1)

\* C16, its case: consume() returned after create_runners came back empty:
\* the message is requeued, not acked, and no poll was made.
C16_Witness ==
    /\ cpc = "done"
    /\ handled # <<>>
    /\ cur.requeued
    /\ cur.rejects = 1
    /\ cur.acks = 0
    /\ creates = 1
    /\ polls = 0

\* C17: after the runner is created the dispatch check is polled at most 10
\* times; a poll either finds the job picked up, and then the message is
\* acked once and consume() ends with no further poll, or leaves the message
\* unsettled; after 10 polls without success the message is rejected once with
\* requeue and consume() ends.
C17_PollsAtMostTenTimes ==
    /\ SpawnPolls = 10
    /\ [](polls <= 10)
    /\ [](cpc = "poll" => (cur.acks = 0 /\ cur.rejects = 0 /\ creates = 1))
    /\ [][(cpc = "poll" /\ cpc' # "terminated") =>
             IF polls < 10
             THEN /\ polls' = polls + 1
                  /\ queue' = queue
                  /\ \/ /\ handled' = [handled EXCEPT ![Len(handled)].picked = TRUE,
                                                      ![Len(handled)].acks = 1]
                        /\ cpc' = "done"
                     \/ /\ handled' = handled
                        /\ cpc' \in {"poll", "crashed"}
             ELSE /\ handled' = [handled EXCEPT ![Len(handled)].rejects = 1,
                                                ![Len(handled)].requeued = TRUE]
                  /\ cpc' = "done"
                  /\ polls' = polls
                  /\ queue' = Append(queue, cur.payload)]_vars
    /\ [][cpc = "done" => (polls' = polls /\ handled' = handled)]_vars

\* C17, its case: consume() returned after ten polls found the job not picked
\* up: the message is rejected once with requeue and not acked.
C17_Witness ==
    /\ cpc = "done"
    /\ polls = 10
    /\ handled # <<>>
    /\ cur.requeued
    /\ cur.rejects = 1
    /\ cur.acks = 0
    /\ ~cur.picked

\* The positions of consume() at which a received message is in hand.
Processing == {"got", "validate", "check", "spawn", "poll"}

\* C18: at every point at which consume() has a message in hand that message
\* is neither acked nor rejected and SIGTERM can end the process; the step of
\* the signal handler acks and rejects nothing, and nothing happens after it,
\* so the message stays neither acked nor rejected.
C18_SigtermLeavesMessageUnsettled ==
    /\ [](cpc \in Processing => (cur.acks = 0 /\ cur.rejects = 0 /\ ENABLED Sigterm))
    /\ [][(cpc # "terminated" /\ cpc' = "terminated") =>
             (handled' = handled /\ queue' = queue /\ creates' = creates /\ polls' = polls)]_vars
    /\ [][cpc = "terminated" => UNCHANGED consumerVars]_vars
    /\ []((cpc = "terminated" /\ handled # <<>>) =>
             \/ cur.acks = 0 /\ cur.rejects = 0
             \/ cur.acks + cur.rejects = 1 /\ ~cur.requeued)

\* C18, its case: the process was ended by SIGTERM while polling for the job
\* of a message whose runner it had created; the message is neither acked nor
\* rejected.
C18_Witness ==
    /\ cpc = "terminated"
    /\ handled # <<>>
    /\ cur.acks = 0
    /\ cur.rejects = 0
    /\ creates = 1
    /\ polls > 0


(***************************************************************************)
(* Properties of RunnerScaler.reconcile (SpecScaler).                      *)
(***************************************************************************)
\* The branch of a call is the one the configuration selects, with the
\* quantity reconcile() passes to it.
ChosenByConfiguration(b) ==
    /\ b.kind = "reactive" <=> reactive_config # "none"
    /\ b.kind = "base" <=> reactive_config = "none"
    /\ b.kind = "base" => b.quantity = expected
    /\ b.kind = "reactive" => b.quantity = max_quantity

\* C19: in each reconcile cycle exactly one branch runs, and the
\* configuration alone chooses it: the reactive branch if and only if a
\* reactive configuration is present, otherwise the base-mode reconcile with
\* base_quantity; never both branches in one cycle.
C19_OneBranchByConfiguration ==
    /\ Len(branch) <= 1
    /\ spc \in {"branch", "finally", "metric", "exit"} => Len(branch) = 1
    /\ \A k \in 1..Len(branch) : ChosenByConfiguration(branch[k])
    /\ \A c \in 1..Len(history) :
          /\ Len(history[c].branch) = 1
          /\ ChosenByConfiguration(history[c].branch[1])

C19_Witness ==
    /\ Len(history) = 2
    /\ history[1].branch = <<[kind |-> "base", quantity |-> 2]>>
    /\ history[2].branch = history[1].branch
    /\ max_quantity = 0

\* C20: every call of reconcile() issues at most one Reconciliation event,
\* and only after its branch, reactive or base mode, has returned or raised;
\* the finally block always runs, and the call issues exactly one event
\* unless get_runners() raises there or the sink raises IssueMetricEventError.
C20_AtMostOneMetricAfterBranch ==
    /\ [][metrics' # metrics =>
             /\ branchEnd # "none"
             /\ Len(branch) = 1
             /\ EventsOf(calls) = {}
             /\ Len(metrics') = Len(metrics) + 1
             /\ metrics'[Len(metrics')].call = calls
             /\ metrics'[Len(metrics')].mode = branch[1].kind]_vars
    /\ [](\A c \in 1..Len(history) :
             LET h == history[c]
             IN /\ h.events <= 1
                /\ h.branchEnd # "none"
                /\ h.listing # "none"
                /\ h.listing = "ok" => h.issueCalls = 1
                /\ (h.listing = "ok" /\ h.sink = "ok") => h.events = 1
                /\ (h.listing = "failed" \/ h.sink = "IssueMetricEventError") => h.events = 0)

C20_Witness ==
    /\ Len(history) = 2
    /\ history[1].branch[1].kind = "reactive"
    /\ history[1].branchEnd = "raised"
    /\ history[1].result = "ReconcileError"
    /\ history[1].events = 1
    /\ history[2].branchEnd = "returned"
    /\ history[2].events = 1
    /\ Len(metrics) = 2

\* C20 as stated: every call issues exactly one Reconciliation event.
C20_AsStated ==
    \A c \in 1..Len(history) : history[c].events = 1


(***************************************************************************)
(* Properties of the Reconciliation metric (SpecMetric).                   *)
(***************************************************************************)
IsAvailable(r) ==
    r.github_state = "IDLE" \/ (r.github_state = "OFFLINE" /\ r.health = "HEALTHY")

IsActive(r) == r.github_state = "BUSY"

Satisfies(r, what) ==
    CASE what = "available" -> IsAvailable(r)
      [] what = "active"    -> IsActive(r)
      [] what = "both"      -> IsAvailable(r) /\ IsActive(r)

\* The runners of the list that are available, active or both, counted one
\* by one.
RECURSIVE CountRunners(_, _)
CountRunners(names, what) ==
    IF names = {} THEN 0
    ELSE LET n == CHOOSE m \in names : TRUE
         IN (IF Satisfies(runner_list[n], what) THEN 1 ELSE 0)
               + CountRunners(names \ {n}, what)

C22_DeletesOnlyOwnPrefix ==
    /\ [](\A i \in BagToSet(cloudDel) \cup BagToSet(platDel) : name_has_prefix(i))
    /\ [](\A i \in todo \cup DOMAIN listed \cup nonRequested \cup runners : name_has_prefix(i))
    /\ [][\A i \in ForeignIds :
             /\ i \in DOMAIN cloud => (i \in DOMAIN cloud' /\ cloud'[i] = cloud[i])
             /\ i \in platform => i \in platform']_vars

C22_Witness ==
    /\ ForeignIds \subseteq DOMAIN cloud
    /\ \E i \in ForeignIds : cloud[i] = "unhealthy"
    /\ ForeignIds \subseteq platform
    /\ cycles = 1
    /\ mpc = "delete_platform"
    /\ BagToSet(cloudDel) # {}
    /\ BagToSet(platDel) # {}


(***************************************************************************)
(* Runner metric events (SpecEvents).                                      *)
(***************************************************************************)
\* C23: over the whole lifetime of an identity at most one RunnerStart and
\* at most one RunnerStop event are issued for it, and a RunnerStop only for
\* a runner that had a RunnerStart.
C23_MetricConservation ==
    \A i \in InitIds :
        /\ CopiesIn(i, runnerStart) <= 1
        /\ CopiesIn(i, runnerStop) <= 1
        /\ BagIn(i, runnerStop) => BagIn(i, runnerStart)


(***************************************************************************)
(* Properties of the reactive consumer pool (SpecPool).                    *)
(***************************************************************************)
\* C24: with target quantity Q and R running consumer processes the pool
\* reconcile returns Q - R; it spawns exactly Q - R processes and kills none
\* when Q > R, does nothing when Q = R, and issues exactly R - Q kills and
\* spawns none when Q < R; a kill that raises ProcessLookupError is ignored
\* and the returned delta is unchanged.
C24_PoolReconcileDelta ==
    /\ spawnCalls > 0 => killCalls = <<>>
    /\ lookupErrors <= Len(killCalls)
    /\ \A k \in 1..Len(killCalls) : killCalls[k] = listedPids[k]
    /\ ppc = "done" =>
          LET Q == quantity
              R == Len(listedPids)
          IN /\ delta = Q - R
             /\ Q > R => (spawnCalls = Q - R /\ killCalls = <<>>)
             /\ Q = R => (spawnCalls = 0 /\ killCalls = <<>>)
             /\ Q < R => (Len(killCalls) = R - Q /\ spawnCalls = 0)

C24_Witness ==
    /\ ppc = "done"
    /\ quantity = 1
    /\ Len(listedPids) = 3
    /\ delta = -2
    /\ Len(killCalls) = 2
    /\ lookupErrors = 1

(***************************************************************************)
(* A flush request that finds the lock held (SpecHttpFair).                *)
(***************************************************************************)
\* The request threads that logged lock_state = "locked" on arrival.
ArrivedLocked == {t \in Threads : lockState[t] = "locked"}

\* While the lock is held, a waiting request takes no step and is not answered.
BlocksWhileHeld ==
    [][\A t \in ArrivedLocked :
          (hpc[t] = "acquire" /\ locked)
              => (hpc'[t] = "acquire" /\ status'[t] = status[t])]_vars

\* A waiting request stops waiting only by taking the free lock and entering
\* the body.
LeavesWaitByAcquiring ==
    [][\A t \in ArrivedLocked :
          (hpc[t] = "acquire" /\ hpc'[t] # "acquire")
              => (~locked /\ locked' /\ hpc'[t] = "build"
                  /\ status'[t] = status[t])]_vars

\* The body ends by releasing the lock and answering 204, or 500 when the
\* build or the flush raised; a failed build never answers 204.
BodyEndsAnswered ==
    [][\A t \in ArrivedLocked :
          (t \in InBody /\ hpc'[t] = "idle")
              => (/\ ~locked'
                  /\ status'[t] \in {204, 500}
                  /\ (hpc[t] = "build" => status'[t] = 500))]_vars

\* A waiting request is eventually in the body, and a request in the body is
\* eventually answered.
WaitingIsServed ==
    \A t \in Threads :
        /\ (lockState[t] = "locked" /\ hpc[t] = "acquire") ~> (t \in InBody)
        /\ (lockState[t] = "locked" /\ t \in InBody) ~> (hpc[t] = "idle")

ReplyOf(identity) ==
    side_effects[CHOOSE k \in DOMAIN identities : identities[k] = identity]

RaisedApiException(identity) == ReplyOf(identity).kind = "ApiException"

Answered(identity) == ~RaisedApiException(identity)

\* The identities queried so far, in request order.
QueriedIdentities == SubSeq(identities, 1, Queried)

\* The identities of requested_runners, in result order.
RequestedIdentities ==
    [j \in DOMAIN requested_runners |-> requested_runners[j].identity]

TimesIn(identity, seq) == Cardinality({j \in DOMAIN seq : seq[j] = identity})

\* C26: every identity queried appears exactly once, in exactly one of
\* requested_runners and failed_requested_runners; one whose query raised an
\* API error is in failed_requested_runners; one the platform reports as not
\* found is in requested_runners with online, busy and deletable all false;
\* both lists follow the request order; and the response is returned only
\* when every requested identity was queried.
C26_BulkHealthPartition ==
    /\ \A k \in 1..Queried :
          LET identity == identities[k]
          IN  /\ TimesIn(identity, RequestedIdentities)
                    + TimesIn(identity, failed_requested_runners) = 1
              /\ side_effects[k].kind = "ApiException"
                    => TimesIn(identity, failed_requested_runners) = 1
              /\ side_effects[k].kind = "NotFoundException"
                    => \E j \in DOMAIN requested_runners :
                          requested_runners[j] = NotFoundHealth(identity)
    /\ RequestedIdentities = SelectSeq(QueriedIdentities, Answered)
    /\ failed_requested_runners = SelectSeq(QueriedIdentities, RaisedApiException)
    /\ responded => Queried = Len(identities)

\* A returned response for two identities: the first query raised an API
\* error and the second identity was not found.
C26_Witness ==
    /\ responded
    /\ Len(identities) = 2
    /\ side_effects[1] = ApiException
    /\ side_effects[2] = NotFoundException
    /\ Len(requested_runners) = 1
    /\ Len(failed_requested_runners) = 1

(***************************************************************************)
(* The branch of the base-mode reconcile (SpecReconcile).                  *)
(***************************************************************************)
\* The manager operation was called in the current cycle.
Called(operation) == \E k \in DOMAIN trace : trace[k] = operation

\* The cycle is past the branch on runner_diff.
Branched == mpc \in CreatePositions \cup DeletePositions \cup {"reconcile_done"}

\* C27: in a base-mode reconcile with runner_diff = expected - number of
\* observed runners, once the branch is taken create_runners(runner_diff) has
\* been called and delete_runners has not when runner_diff > 0,
\* delete_runners(-runner_diff) has been called and create_runners has not
\* when runner_diff < 0, and neither has been called when runner_diff = 0;
\* before the branch neither is called.
C27_BranchByDiffSign ==
    /\ [](Branched =>
            /\ runner_diff = expected - Cardinality(runners)
            /\ runner_diff > 0 =>
                  /\ Called("create_runners")
                  /\ ~Called("delete_runners")
                  /\ requested = runner_diff
            /\ runner_diff < 0 =>
                  /\ Called("delete_runners")
                  /\ ~Called("create_runners")
            /\ runner_diff = 0 =>
                  /\ ~Called("create_runners")
                  /\ ~Called("delete_runners"))
    /\ [](~Branched => ~Called("create_runners") /\ ~Called("delete_runners"))
    /\ [][(mpc = "delete_pick" /\ mpc' = "delete_cloud")
             => Cardinality(todo') = -runner_diff]_vars

\* A cycle that observed two runners more than expected and has entered
\* delete_runners with two runners to delete.
C27_Witness ==
    /\ mpc = "delete_cloud"
    /\ runner_diff = -2
    /\ Cardinality(todo) = 2
    /\ trace = <<"cleanup", "cleanup_returned", "get_runners", "delete_runners">>

(***************************************************************************)
(* A cloud error inside a reconcile branch (SpecScaler).                   *)
(***************************************************************************)
\* The calls of reconcile() whose branch raised a CloudError.
CloudErrorCalls == {c \in 1..Len(history) : history[c].raised = "CloudError"}

CreateMetMissingConfig ==
    \E k \in DOMAIN attempts : attempts[k].cloud = "MissingServerConfigError"

\* C29: when the server configuration is missing, no instance is ever
\* launched; a create call that reaches create_runner is aborted at that
\* runner without returning any, the base-mode reconcile logs the error and
\* goes on to its return with runner_diff untouched, from where it can
\* return.
C29_MissingConfigAbortsCreate ==
    /\ [][server_config = "none" => DOMAIN cloud' \subseteq DOMAIN cloud]_vars
    /\ [](server_config = "none" =>
            /\ returned = {}
            /\ \A k \in DOMAIN attempts :
                  attempts[k].cloud \in {"none", "MissingServerConfigError"})
    /\ [](CreateMetMissingConfig =>
            /\ server_config = "none"
            /\ attempts[Len(attempts)].cloud = "MissingServerConfigError"
            /\ \A k \in 1..(Len(attempts) - 1) : attempts[k].cloud = "none"
            /\ mpc \in {"create_aborted", "missing_config", "reconcile_done"}
            /\ runner_diff = expected - Cardinality(runners)
            /\ runner_diff > 0
            /\ mpc = "reconcile_done" =>
                  /\ trace[Len(trace)] = "log_missing_server_config"
                  /\ ENABLED ReconcileReturn)
    /\ [][(CreateMetMissingConfig /\ mpc = "reconcile_done" /\ mpc' # mpc)
             => (mpc' = "idle" /\ cycles' = cycles + 1)]_vars

\* A reconcile that found two runners missing and no server configuration:
\* the create call was aborted at the first runner, the error is logged and
\* the reconcile is about to return.
C29_Witness ==
    /\ server_config = "none"
    /\ mpc = "reconcile_done"
    /\ runner_diff = 2
    /\ Len(attempts) = 1
    /\ attempts[1].cloud = "MissingServerConfigError"
    /\ trace[Len(trace)] = "log_missing_server_config"
    /\ ENABLED ReconcileReturn

(***************************************************************************)
(* Deleting a runner despite SSH trouble (SpecRemoval).                    *)
(***************************************************************************)
\* The instances whose _delete_runner call has returned.
Removed == {i \in DOMAIN deleted : i \notin unhealthy /\ i # instance}

\* C30: every _delete_runner call that has returned made exactly one
\* delete_instance call, whether the SSH connection failed (then the removal
\* script was skipped and both facts were logged), the removal script failed
\* (logged) or both worked; a failed delete_instance is logged, leaves the
\* instance in the cloud and does not stop the call from returning; no call
\* makes more than one delete_instance call.
C30_DeleteAttemptedOnce ==
    /\ \A i \in Removed :
          /\ deleteCalls[i] = 1
          /\ deleted[i] \in {"ok", "OpenStackError"}
          /\ ssh_conn[i] = "SSHError" =>
                /\ removal[i] = "none"
                /\ i \notin pulled_metrics
                /\ <<i, "Failed to get SSH connection">> \in logged
                /\ <<i, "Skipping runner remove script">> \in logged
          /\ removal[i] = "_GithubRunnerRemoveError" =>
                <<i, "Unable to run github runner removal script">> \in logged
          /\ deleted[i] = "OpenStackError" <=>
                <<i, "Unable to delete openstack instance">> \in logged
          /\ deleted[i] = "OpenStackError" <=> i \in servers
    /\ \A i \in DOMAIN deleteCalls : deleteCalls[i] <= 1
    /\ dpc = "return" => deleteCalls[instance] = 1

\* Two calls have returned: the first could not connect by SSH, the removal
\* script of the second failed and so did its delete_instance; each made one
\* delete_instance call.
C30_Witness ==
    /\ Removed = {1, 2}
    /\ ssh_conn[1] = "SSHError"
    /\ removal[2] = "_GithubRunnerRemoveError"
    /\ deleted[2] = "OpenStackError"
    /\ deleteCalls[1] = 1
    /\ deleteCalls[2] = 1
    /\ dpc = "idle"

(***************************************************************************)
(* The order of the steps of a runner's deletion (SpecRemoval).            *)
(***************************************************************************)
\* platform.delete_runner was called for the instance.
PlatformDeleted(i) == BagIn(i, platDel)

\* C31 (amended): when a runner is deleted the steps happen in the order
\* open SSH, pull the metric files, attempt the graceful agent removal, cloud
\* delete, platform delete_runner: the removal script is attempted only
\* after the metrics were pulled, metrics are pulled only over an open
\* connection, the cloud delete comes after all of them (or after the failed
\* connection), and platform delete_runner only after the cloud delete.
C31_DeleteStepOrder ==
    /\ \A i \in DOMAIN removal :
          /\ i \in pulled_metrics => ssh_conn[i] = "ok"
          /\ removal[i] # "none" => i \in pulled_metrics
          /\ deleteCalls[i] > 0 =>
                /\ ssh_conn[i] # "none"
                /\ ssh_conn[i] = "ok" => (i \in pulled_metrics /\ removal[i] # "none")
          /\ PlatformDeleted(i) => (deleteCalls[i] = 1 /\ deleted[i] # "none")
    /\ dpc = "pull" => (removal[instance] = "none" /\ deleteCalls[instance] = 0)
    /\ dpc = "script" =>
          (instance \in pulled_metrics /\ removal[instance] = "none"
           /\ deleteCalls[instance] = 0)

\* A runner deleted through all five steps: connection, metrics, a failed
\* removal script, cloud delete, platform delete_runner.
C31_Witness ==
    /\ dpc = "idle"
    /\ 1 \in DOMAIN ssh_conn
    /\ ssh_conn[1] = "ok"
    /\ 1 \in pulled_metrics
    /\ removal[1] = "_GithubRunnerRemoveError"
    /\ deleted[1] = "ok"
    /\ PlatformDeleted(1)

\* C31 as stated: the graceful agent removal is attempted before the
\* metrics are pulled, so metrics are only ever pulled from an instance whose
\* removal script was attempted.
C31_AsStated ==
    \A i \in DOMAIN removal : i \in pulled_metrics => removal[i] # "none"

(***************************************************************************)
(* The retry wrapper (utilities.py) step by step, around any function.     *)
(***************************************************************************)
\* Largest number of attempts of a wrapper.
MaxTries == 3

FlushFrame == UNCHANGED <<consumerVars, httpVars, managerVars, scalerVars, metricVars,
                          eventVars, poolVars, healthVars, removalVars>>

\* Exception types a wrapper can be told to retry.
ExceptionTypes == {"Exception", "RetriedError"}

\* What one call of the wrapped function does: it returns, or it raises.
FuncOutcomes == {"returned", "RetriedError", "OtherError"}

\* except exception as err: every exception is an Exception.
Caught(err) == exception = "Exception" \/ err = exception

\* min(current_delay, max_delay) unless max_delay is None.
NextDelay ==
    IF max_delay # -1 /\ current_delay * backoff > max_delay
    THEN max_delay
    ELSE current_delay * backoff

\* remain_tries, current_delay = tries, delay
RetryEnter ==
    /\ remain_tries' = tries
    /\ current_delay' = delay
    /\ iterations' = 0
    /\ func_calls' = 0
    /\ sleeps' = <<>>
    /\ func_result' = <<>>
    /\ retry_result' = "none"
    /\ raised_call' = 0
    /\ wpc' = "for"
    /\ UNCHANGED <<exception, tries, delay, max_delay, backoff>>

FlushUnchanged == UNCHANGED <<flush_busy, instance_list, fidx, fpc, listener, worker, kills,
                              checked, warned, cleanup_calls, flush_result>>

RetryConfigUnchanged == UNCHANGED <<exception, tries, delay, max_delay, backoff>>

\* The decorated function is called.
fn_with_retry ==
    /\ wpc = "idle"
    /\ fpc = "idle"
    /\ retry_result = "none"
    /\ RetryEnter
    /\ FlushUnchanged
    /\ FlushFrame

\* for _ in range(tries): return func(*args, **kwargs)
RetryCall ==
    /\ wpc = "for"
    /\ iterations < tries
    /\ iterations' = iterations + 1
    /\ func_calls' = func_calls + 1
    /\ wpc' = "func"
    /\ UNCHANGED <<remain_tries, current_delay, sleeps, func_result, retry_result, raised_call>>
    /\ RetryConfigUnchanged
    /\ FlushUnchanged
    /\ FlushFrame

\* The for loop is over: raise RuntimeError("Unreachable code of retry logic.")
RetryUnreachable ==
    /\ wpc = "for"
    /\ iterations >= tries
    /\ retry_result' = "RuntimeError"
    /\ wpc' = "end"
    /\ UNCHANGED <<remain_tries, current_delay, iterations, func_calls, sleeps, func_result,
                   raised_call>>
    /\ RetryConfigUnchanged
    /\ FlushUnchanged
    /\ FlushFrame

\* The exception handler with the limit met on every failure but the last
\* of the loop: the wrapper never raises before the loop is over.
RetryExceptNoRaise ==
    /\ wpc = "result"
    /\ func_result[Len(func_result)] # "returned"
    /\ IF ~Caught(func_result[Len(func_result)])
       THEN /\ retry_result' = func_result[Len(func_result)]
            /\ raised_call' = func_calls
            /\ wpc' = "end"
            /\ UNCHANGED remain_tries
       ELSE /\ remain_tries' = remain_tries - 1
            /\ wpc' = "sleep"
            /\ UNCHANGED <<retry_result, raised_call>>
    /\ UNCHANGED <<current_delay, iterations, func_calls, sleeps, func_result>>
    /\ RetryConfigUnchanged
    /\ FlushUnchanged
    /\ FlushFrame

\* One call of a wrapped function that is not part of this program.
FuncBody(outcome) ==
    /\ wpc = "func"
    /\ fpc = "idle"
    /\ func_result' = Append(func_result, outcome)
    /\ wpc' = "result"
    /\ UNCHANGED <<remain_tries, current_delay, iterations, func_calls, sleeps, retry_result,
                   raised_call>>
    /\ RetryConfigUnchanged
    /\ FlushUnchanged
    /\ FlushFrame

\* return func(*args, **kwargs): the call returned.
RetryReturn ==
    /\ wpc = "result"
    /\ func_result[Len(func_result)] = "returned"
    /\ retry_result' = "returned"
    /\ wpc' = "end"
    /\ UNCHANGED <<remain_tries, current_delay, iterations, func_calls, sleeps, func_result,
                   raised_call>>
    /\ RetryConfigUnchanged
    /\ FlushUnchanged
    /\ FlushFrame

\* except exception as err: remain_tries -= 1; raise when none is left. An
\* exception of another type leaves the wrapper at once.
RetryExcept ==
    /\ wpc = "result"
    /\ func_result[Len(func_result)] # "returned"
    /\ IF ~Caught(func_result[Len(func_result)])
       THEN /\ retry_result' = func_result[Len(func_result)]
            /\ raised_call' = func_calls
            /\ wpc' = "end"
            /\ UNCHANGED remain_tries
       ELSE /\ remain_tries' = remain_tries - 1
            /\ IF remain_tries - 1 = 0
               THEN /\ retry_result' = func_result[Len(func_result)]
                    /\ raised_call' = func_calls
                    /\ wpc' = "end"
               ELSE /\ wpc' = "sleep"
                    /\ UNCHANGED <<retry_result, raised_call>>
    /\ UNCHANGED <<current_delay, iterations, func_calls, sleeps, func_result>>
    /\ RetryConfigUnchanged
    /\ FlushUnchanged
    /\ FlushFrame

\* time.sleep(current_delay); current_delay *= backoff, capped by max_delay.
RetrySleep ==
    /\ wpc = "sleep"
    /\ sleeps' = Append(sleeps, current_delay)
    /\ current_delay' = NextDelay
    /\ wpc' = "for"
    /\ UNCHANGED <<remain_tries, iterations, func_calls, func_result, retry_result,
                   raised_call>>
    /\ RetryConfigUnchanged
    /\ FlushUnchanged
    /\ FlushFrame

RetryInit ==
    /\ exception \in ExceptionTypes
    /\ tries \in 0..MaxTries
    /\ delay \in 0..1
    /\ max_delay \in {-1, 1}
    /\ backoff \in 1..2
    /\ remain_tries = 0
    /\ current_delay = 0
    /\ iterations = 0
    /\ func_calls = 0
    /\ sleeps = <<>>
    /\ func_result = <<>>
    /\ retry_result = "none"
    /\ raised_call = 0
    /\ wpc = "idle"
    /\ flush_busy = FALSE
    /\ instance_list = <<>>
    /\ fidx = 0
    /\ fpc = "idle"
    /\ listener = <<>>
    /\ worker = <<>>
    /\ kills = {}
    /\ checked = {}
    /\ warned = {}
    /\ cleanup_calls = 0
    /\ flush_result = "none"

InitRetry ==
    /\ cloud = NoInstances
    /\ platform = {}
    /\ expected = 0
    /\ ManagerRest
    /\ ServerConfigured
    /\ ConsumerRest
    /\ HttpRest
    /\ ScalerRest
    /\ MetricRest
    /\ EventRest
    /\ PoolRest
    /\ HealthRest
    /\ RemovalRest
    /\ RetryInit

RetryNext ==
    \/ fn_with_retry
    \/ RetryCall
    \/ RetryUnreachable
    \/ \E outcome \in FuncOutcomes : FuncBody(outcome)
    \/ RetryReturn
    \/ RetryExcept
    \/ RetrySleep

SpecRetry == InitRetry /\ [][RetryNext]_vars

(***************************************************************************)
(* Properties of the retry wrapper (SpecRetry).                            *)
(***************************************************************************)
\* The k-th call of the wrapped function raised an exception of the retried
\* type.
RaisedRetried(k) == func_result[k] # "returned" /\ Caught(func_result[k])

\* C34: with tries = n >= 1 the retry wrapper calls the wrapped function at
\* most n times; a call that succeeds is the last call and the wrapper
\* returns its result; when all n calls raise the retried exception type the
\* wrapper re-raises the exception of the n-th call; it sleeps between
\* consecutive attempts only, so one time less than it called, and never
\* after the last failure.
C34_RetryAtMostTries ==
    tries >= 1 =>
        /\ func_calls <= tries
        /\ Len(func_result) <= func_calls
        /\ Len(sleeps) <= func_calls
        /\ \A k \in DOMAIN func_result :
               func_result[k] = "returned" => k = func_calls
        /\ wpc = "end" =>
               /\ Len(func_result) = func_calls
               /\ Len(sleeps) = func_calls - 1
               /\ func_result[func_calls] = "returned" => retry_result = "returned"
               /\ (func_calls = tries /\ \A k \in 1..tries : RaisedRetried(k)) =>
                      /\ retry_result = func_result[tries]
                      /\ raised_call = tries
                      /\ Len(sleeps) = tries - 1

\* Three attempts that all raised the retried exception: the third one is
\* re-raised after two sleeps.
C34_Witness ==
    /\ wpc = "end"
    /\ fpc = "idle"
    /\ tries = 3
    /\ func_calls = 3
    /\ \A k \in 1..3 : RaisedRetried(k)
    /\ raised_call = 3
    /\ Len(sleeps) = 2

MaxFlush == 2

\* @retry(tries=3, delay=5, backoff=2, local_logger=logger)
FlushTries == 3

FlushDelay == 5

FlushBackoff == 2

\* The instance of the current iteration of the loop of flush_runners.
FlushInstance == instance_list[fidx]

KillRecord(process) ==
    [instance |-> FlushInstance, process |-> process, busy |-> flush_busy,
     worker_running |-> worker[FlushInstance]]

WrapperUnchanged == UNCHANGED <<remain_tries, current_delay, iterations, func_calls, sleeps,
                                retry_result, raised_call>>

\* instance_list = self._openstack_cloud.get_instances()
FlushGetInstances(busy) ==
    /\ fpc = "idle"
    /\ wpc = "idle"
    /\ flush_result = "none"
    /\ flush_busy' = busy
    /\ fidx' = 1
    /\ fpc' = "for"
    /\ UNCHANGED <<retryVars, instance_list, listener, worker, kills, checked, warned,
                   cleanup_calls, flush_result>>
    /\ FlushFrame

\* for instance in instance_list: self._check_state_and_flush(instance, busy)
FlushFor ==
    /\ fpc = "for"
    /\ fidx <= Len(instance_list)
    /\ checked' = checked \cup {FlushInstance}
    /\ RetryEnter
    /\ fpc' = "check"
    /\ UNCHANGED <<flush_busy, instance_list, fidx, listener, worker, kills, warned,
                   cleanup_calls, flush_result>>
    /\ FlushFrame

\* except SSHError: logger.warning(...); continue. Any other exception of the
\* check leaves flush_runners.
FlushAfterCheck ==
    /\ fpc = "check"
    /\ wpc = "end"
    /\ IF retry_result \in {"returned", "SSHError"}
       THEN /\ warned' = IF retry_result = "SSHError"
                         THEN warned \cup {FlushInstance}
                         ELSE warned
            /\ fidx' = fidx + 1
            /\ fpc' = "for"
            /\ UNCHANGED flush_result
       ELSE /\ flush_result' = retry_result
            /\ fpc' = "done"
            /\ UNCHANGED <<warned, fidx>>
    /\ wpc' = "idle"
    /\ UNCHANGED <<exception, tries, delay, max_delay, backoff, remain_tries, current_delay,
                   iterations, func_calls, sleeps, func_result, retry_result, raised_call>>
    /\ UNCHANGED <<flush_busy, instance_list, listener, worker, kills, checked, cleanup_calls>>
    /\ FlushFrame

\* return self.cleanup(remove_token)
FlushCleanup ==
    /\ fpc = "for"
    /\ fidx > Len(instance_list)
    /\ cleanup_calls' = cleanup_calls + 1
    /\ flush_result' = "returned"
    /\ fpc' = "done"
    /\ UNCHANGED <<retryVars, flush_busy, instance_list, fidx, listener, worker, kills,
                   checked, warned>>
    /\ FlushFrame

\* One call of _check_state_and_flush ends: it returned, or raised err.
CheckEnds(result) ==
    /\ func_result' = Append(func_result, result)
    /\ wpc' = "result"

\* ssh_conn = self._openstack_cloud.get_ssh_connection(instance): KeyfileError
\* is logged and the call returns, SSHError is logged and raised.
CheckGetSshConnection(outcome) ==
    /\ fpc = "check"
    /\ wpc = "func"
    /\ CASE outcome = "ok" -> wpc' = "run" /\ UNCHANGED func_result
         [] outcome = "KeyfileError" -> CheckEnds("returned")
         [] outcome = "SSHError" -> CheckEnds("SSHError")
    /\ WrapperUnchanged
    /\ RetryConfigUnchanged
    /\ FlushUnchanged
    /\ FlushFrame

\* ssh_conn.run(kill_command, warn=True, timeout=30, hide=True): the command
\* starts on the VM, or the call raises (the connection broke, or timed out).
CheckRunKillCommand(outcome) ==
    /\ fpc = "check"
    /\ wpc = "run"
    /\ IF outcome = "runs"
       THEN /\ wpc' = IF flush_busy THEN "busy_listener" ELSE "idle_worker"
            /\ UNCHANGED func_result
       ELSE CheckEnds(outcome)
    /\ WrapperUnchanged
    /\ RetryConfigUnchanged
    /\ FlushUnchanged
    /\ FlushFrame

\* ! pgrep -x Runner.Worker && ...
IdleTestWorker ==
    /\ wpc = "idle_worker"
    /\ IF worker[FlushInstance]
       THEN CheckEnds("returned")
       ELSE wpc' = "idle_listener" /\ UNCHANGED func_result
    /\ WrapperUnchanged
    /\ RetryConfigUnchanged
    /\ FlushUnchanged
    /\ FlushFrame

\* ... && pgrep -x Runner.Listener && ...
IdleTestListener ==
    /\ wpc = "idle_listener"
    /\ IF listener[FlushInstance]
       THEN wpc' = "idle_kill" /\ UNCHANGED func_result
       ELSE CheckEnds("returned")
    /\ WrapperUnchanged
    /\ RetryConfigUnchanged
    /\ FlushUnchanged
    /\ FlushFrame

\* ... && kill $(pgrep -x Runner.Listener)
IdleKillListener ==
    /\ wpc = "idle_kill"
    /\ IF listener[FlushInstance]
       THEN /\ listener' = [listener EXCEPT ![FlushInstance] = FALSE]
            /\ kills' = kills \cup {KillRecord("Runner.Listener")}
       ELSE UNCHANGED <<listener, kills>>
    /\ CheckEnds("returned")
    /\ WrapperUnchanged
    /\ RetryConfigUnchanged
    /\ UNCHANGED <<flush_busy, instance_list, fidx, fpc, worker, checked, warned,
                   cleanup_calls, flush_result>>
    /\ FlushFrame

\* pgrep -x Runner.Listener && kill $(pgrep -x Runner.Listener);
BusyKillListener ==
    /\ wpc = "busy_listener"
    /\ IF listener[FlushInstance]
       THEN /\ listener' = [listener EXCEPT ![FlushInstance] = FALSE]
            /\ kills' = kills \cup {KillRecord("Runner.Listener")}
       ELSE UNCHANGED <<listener, kills>>
    /\ wpc' = "busy_worker"
    /\ UNCHANGED func_result
    /\ WrapperUnchanged
    /\ RetryConfigUnchanged
    /\ UNCHANGED <<flush_busy, instance_list, fidx, fpc, worker, checked, warned,
                   cleanup_calls, flush_result>>
    /\ FlushFrame

\* pgrep -x Runner.Worker && kill $(pgrep -x Runner.Worker);
BusyKillWorker ==
    /\ wpc = "busy_worker"
    /\ IF worker[FlushInstance]
       THEN /\ worker' = [worker EXCEPT ![FlushInstance] = FALSE]
            /\ kills' = kills \cup {KillRecord("Runner.Worker")}
       ELSE UNCHANGED <<worker, kills>>
    /\ CheckEnds("returned")
    /\ WrapperUnchanged
    /\ RetryConfigUnchanged
    /\ UNCHANGED <<flush_busy, instance_list, fidx, fpc, listener, checked, warned,
                   cleanup_calls, flush_result>>
    /\ FlushFrame

\* The runner on the VM is handed a job while the flush runs: its listener
\* starts a Runner.Worker process.
JobStarts(i) ==
    /\ fpc \in {"for", "check"}
    /\ i \in DOMAIN listener
    /\ listener[i]
    /\ ~worker[i]
    /\ worker' = [worker EXCEPT ![i] = TRUE]
    /\ UNCHANGED <<retryVars, flush_busy, instance_list, fidx, fpc, listener, kills, checked,
                   warned, cleanup_calls, flush_result>>
    /\ FlushFrame

FlushInstanceLists == {[i \in 1..n |-> i] : n \in 0..MaxFlush}

FlushInit ==
    /\ exception = "Exception"
    /\ tries = FlushTries
    /\ delay = FlushDelay
    /\ max_delay = -1
    /\ backoff = FlushBackoff
    /\ remain_tries = 0
    /\ current_delay = 0
    /\ iterations = 0
    /\ func_calls = 0
    /\ sleeps = <<>>
    /\ func_result = <<>>
    /\ retry_result = "none"
    /\ raised_call = 0
    /\ wpc = "idle"
    /\ flush_busy = FALSE
    /\ instance_list \in FlushInstanceLists
    /\ fidx = 0
    /\ fpc = "idle"
    /\ listener \in [DOMAIN instance_list -> BOOLEAN]
    /\ worker \in [DOMAIN instance_list -> BOOLEAN]
    /\ \A i \in DOMAIN instance_list : worker[i] => listener[i]
    /\ kills = {}
    /\ checked = {}
    /\ warned = {}
    /\ cleanup_calls = 0
    /\ flush_result = "none"

InitFlush ==
    /\ cloud = NoInstances
    /\ platform = {}
    /\ expected = 0
    /\ ManagerRest
    /\ ServerConfigured
    /\ ConsumerRest
    /\ HttpRest
    /\ ScalerRest
    /\ MetricRest
    /\ EventRest
    /\ PoolRest
    /\ HealthRest
    /\ RemovalRest
    /\ FlushInit

FlushNext ==
    \/ \E busy \in BOOLEAN : FlushGetInstances(busy)
    \/ FlushFor
    \/ RetryCall
    \/ \E outcome \in {"ok", "KeyfileError", "SSHError"} : CheckGetSshConnection(outcome)
    \/ \E outcome \in {"runs", "TimeoutError"} : CheckRunKillCommand(outcome)
    \/ IdleTestWorker
    \/ IdleTestListener
    \/ IdleKillListener
    \/ BusyKillListener
    \/ BusyKillWorker
    \/ RetryReturn
    \/ RetryExcept
    \/ RetrySleep
    \/ FlushAfterCheck
    \/ FlushCleanup
    \/ \E i \in 1..MaxFlush : JobStarts(i)

SpecFlush == InitFlush /\ [][FlushNext]_vars

(***************************************************************************)
(* Properties of the flush (SpecFlush).                                    *)
(***************************************************************************)
\* The instances get_instances returned to the flush.
FlushListed == {instance_list[k] : k \in DOMAIN instance_list}

\* C32: a flush in IDLE mode never kills the agent of a busy runner, one
\* whose Runner.Worker process is running when the kill hits; a flush in BUSY
\* mode kills the listener and the worker of a runner it reaches, whether or
\* not the runner is busy.
C32_IdleFlushSparesBusy ==
    /\ \A k \in kills : ~k.busy => ~k.worker_running
    /\ (flush_busy /\ wpc = "busy_worker") => ~listener[FlushInstance]
    /\ \A k \in kills : k.process = "Runner.Worker" => k.busy

\* C33: flush_runners visits every listed instance and calls cleanup()
\* exactly once, after the pass over all instances: a flush that has ended
\* has checked every listed instance and has called cleanup once, and cleanup
\* is never called before every listed instance was checked.
C33_FlushVisitsAllThenCleanup ==
    /\ cleanup_calls <= 1
    /\ cleanup_calls = 1 => checked = FlushListed
    /\ flush_result # "none" => (checked = FlushListed /\ cleanup_calls = 1)

(***************************************************************************)
(* Settlement of the received messages (SpecConsumer).                     *)
(***************************************************************************)
\* msg.ack() and msg.reject() calls made on a message.
Settlements(m) == m.acks + m.rejects

\* C36 as amended: every received message is settled at most once, acked or
\* rejected and never both; it is settled exactly once before the consumer
\* receives the next message and before consume() returns or raises JobError;
\* the message in hand is left unsettled only when a dispatch check raised a
\* platform API error or the termination signal arrived, and both end
\* consume().
C36_SettledOnceUnlessAborted ==
    /\ \A i \in DOMAIN handled : Settlements(handled[i]) <= 1
    /\ \A i \in DOMAIN handled : i < Len(handled) => Settlements(handled[i]) = 1
    /\ (cpc \in {"get", "done"} /\ handled # <<>>) => Settlements(cur) = 1
    /\ (cpc = "crashed" /\ cur.payload.kind = "invalid") => Settlements(cur) = 1
    /\ (cpc = "crashed" /\ cur.payload.kind # "invalid") =>
           (Settlements(cur) = 0 /\ cur.payload.kind = "job" /\ LabelsSupported(cur))

\* C36, its case: the second message of the call is in hand, unsettled, when
\* a dispatch check raises; the first one was settled once.
C36_Witness ==
    /\ cpc = "crashed"
    /\ Len(handled) = 2
    /\ Settlements(handled[1]) = 1
    /\ handled[2].payload.kind = "job"
    /\ Settlements(handled[2]) = 0

\* C36 as stated: when consume() has returned or raised, every message it
\* received is settled exactly once.
C36_AsStated ==
    cpc \in {"done", "crashed"} => \A i \in DOMAIN handled : Settlements(handled[i]) = 1

\* C37: one call of consume() calls create_runners at most once; the messages
\* it received before the one in hand were rejected without requeue for
\* unsupported labels or acked as already dispatched; after the call of
\* create_runners no message is received and create_runners is not called
\* again; consume() returns with the message acked, or rejected with requeue.
C37_AtMostOneCreate ==
    /\ [](creates <= 1)
    /\ [](\A i \in DOMAIN handled : i < Len(handled) =>
             /\ handled[i].payload.kind = "job"
             /\ \/ (~LabelsSupported(handled[i]) /\ handled[i].rejects = 1
                    /\ ~handled[i].requeued /\ handled[i].acks = 0)
                \/ (LabelsSupported(handled[i]) /\ handled[i].acks = 1
                    /\ handled[i].picked /\ handled[i].rejects = 0))
    /\ []((creates = 1 /\ cpc = "done") =>
             \/ (cur.acks = 1 /\ cur.picked /\ cur.rejects = 0)
             \/ (cur.rejects = 1 /\ cur.requeued /\ cur.acks = 0))
    /\ [](creates = 1 => cpc \in {"poll", "done", "crashed", "terminated"})
    /\ [][creates = 1 => (Len(handled') = Len(handled) /\ creates' = creates)]_vars

\* C37, its case: a second message got its runner after the first one was
\* acked as already dispatched, and consume() has returned.
C37_Witness ==
    /\ cpc = "done"
    /\ creates = 1
    /\ Len(handled) = 2
    /\ handled[1].acks = 1
    /\ handled[2].rejects = 1
    /\ handled[2].requeued

(***************************************************************************)
(* Release of the reconcile lock by the flush requests (SpecHttp).         *)
(***************************************************************************)
\* C38: the reconcile lock is released when a flush request ends, with 204
\* or with an error raised while building the scaler or flushing: the step
\* that ends the body of a request frees the lock, so the lock is held only
\* while a flush body or a reconcile cycle is running, and a waiting flush or
\* a reconcile can take it as soon as no body runs.
C38_LockReleasedWhenFlushEnds ==
    /\ [](locked <=> BodiesRunning = 1)
    /\ [](\A t \in Threads : status[t] \in {0, 204, 500})
    /\ [][\A t \in Threads :
             (hpc[t] \in {"build", "flush"} /\ hpc'[t] = "idle") =>
                 (~locked' /\ status'[t] \in {204, 500})]_vars
    /\ []((BodiesRunning = 0 /\ \E t \in Threads : hpc[t] = "acquire") =>
             \E t \in Threads : ENABLED FlushAcquire(t))
    /\ []((BodiesRunning = 0 /\ rpc = "wait") => ENABLED ReconcileAcquire)

\* C38, its case: a request that arrived while the lock was held has entered
\* its body after the request before it ended with an error.
C38_Witness ==
    /\ status[1] = 500
    /\ hpc[1] = "idle"
    /\ hpc[2] = "build"
    /\ lockState[2] = "locked"
    /\ locked

(***************************************************************************)
(* The three health groups of the cloud listing (SpecReconcile).           *)
(***************************************************************************)
\* C39: every instance of the cloud listing is in exactly one of the groups
\* healthy, unhealthy and unknown: a health check that returns true gives
\* healthy, one that returns false gives unhealthy, one that raises gives
\* unknown and neither of the others; the groups are disjoint and cover the
\* listing, and the cleanup that has just classified the listing deletes the
\* unhealthy group only.
C39_HealthGroupsPartition ==
    LET h == get_runners_health(get_instances)
        l == get_runners_health(listed)
    IN  /\ h.healthy \cap h.unhealthy = {}
        /\ h.healthy \cap h.unknown = {}
        /\ h.unhealthy \cap h.unknown = {}
        /\ h.healthy \cup h.unhealthy \cup h.unknown = DOMAIN get_instances
        /\ \A i \in DOMAIN get_instances :
               /\ get_instances[i] = "healthy" <=> i \in h.healthy
               /\ get_instances[i] = "unhealthy" <=> i \in h.unhealthy
               /\ get_instances[i] = "unknown" <=> i \in h.unknown
        /\ mpc = "cleanup_delete" =>
               /\ todo \subseteq l.unhealthy
               /\ todo \cap (l.healthy \cup l.unknown) = {}
               /\ l.healthy \cup l.unhealthy \cup l.unknown = DOMAIN listed

\* C39, its case: a cleanup has classified a listing with an instance whose
\* check raised and one whose check failed, and is about to delete the latter.
C39_Witness ==
    /\ mpc = "cleanup_delete"
    /\ \E i, j \in DOMAIN listed :
           /\ listed[i] = "unknown"
           /\ listed[j] = "unhealthy"
           /\ j \in todo
           /\ i \notin todo

(***************************************************************************)
(* RunnerScaler.get_runner_info (runner_scaler.py).                        *)
(***************************************************************************)
\* RunnerInfo before the loop: the counters are 0 and the lists are empty.
EmptyRunnerInfo ==
    [online |-> 0, busy |-> 0, offline |-> 0, unknown |-> 0,
     runners |-> <<>>, busy_runners |-> <<>>]

\* A mutant of the match statement: a busy runner is not counted as online.
RunnerInfoCaseBusyNotOnline(info, name, github_state) ==
    CASE github_state = "BUSY" ->
             [info EXCEPT !.busy = @ + 1, !.busy_runners = Append(@, name)]
      [] github_state = "IDLE" ->
             [info EXCEPT !.online = @ + 1, !.runners = Append(@, name)]
      [] github_state = "OFFLINE" -> [info EXCEPT !.offline = @ + 1]
      [] OTHER -> [info EXCEPT !.unknown = @ + 1]

\* match runner.github_state: the body of the loop for one runner.
RunnerInfoCase(info, name, github_state) ==
    CASE github_state = "BUSY" ->
             [info EXCEPT !.online = @ + 1, !.runners = Append(@, name),
                          !.busy = @ + 1, !.busy_runners = Append(@, name)]
      [] github_state = "IDLE" ->
             [info EXCEPT !.online = @ + 1, !.runners = Append(@, name)]
      [] github_state = "OFFLINE" -> [info EXCEPT !.offline = @ + 1]
      [] OTHER -> [info EXCEPT !.unknown = @ + 1]

\* for runner in runner_list, over the runners that are left.
RECURSIVE RunnerInfoLoop(_, _, _)
RunnerInfoLoop(rl, names, info) ==
    IF names = <<>>
    THEN info
    ELSE RunnerInfoLoop(rl, Tail(names),
                        RunnerInfoCase(info, Head(names), rl[Head(names)].github_state))

\* get_runner_info on the runners get_runners() returned.
get_runner_info(rl) == RunnerInfoLoop(rl, SortedSeq(DOMAIN rl), EmptyRunnerInfo)

\* runner_info = runner_scaler.get_runner_info()
GetRunnerInfo ==
    /\ runner_info = <<>>
    /\ runner_info' = <<get_runner_info(runner_list)>>
    /\ UNCHANGED <<runner_list, metric_stats, issued, metricError>>
    /\ UNCHANGED <<consumerVars, httpVars, managerVars, scalerVars, eventVars, poolVars,
                   healthVars, removalVars, flushVars>>

SpecRunnerInfo == InitMetric /\ [][GetRunnerInfo]_vars

\* The elements of a tuple of names.
NamesOf(t) == {t[k] : k \in DOMAIN t}

\* The runners of the list in a github state.
InState(states) == {n \in DOMAIN runner_list : runner_list[n].github_state \in states}

\* C40: for every runner list get_runner_info returns counts with online +
\* offline + unknown = number of runners and busy <= online; the tuple of
\* online names has length online, the tuple of busy names has length busy
\* and its names are among the online names; every runner is counted in
\* exactly one of online, offline and unknown.
C40_RunnerInfoCounts ==
    runner_info # <<>> =>
        LET info == runner_info[1]
        IN  /\ info.online + info.offline + info.unknown = Cardinality(DOMAIN runner_list)
            /\ info.busy <= info.online
            /\ Len(info.runners) = info.online
            /\ Len(info.busy_runners) = info.busy
            /\ NamesOf(info.busy_runners) \subseteq NamesOf(info.runners)
            /\ NamesOf(info.runners) = InState({"BUSY", "IDLE"})
            /\ NamesOf(info.busy_runners) = InState({"BUSY"})
            /\ info.online = Cardinality(InState({"BUSY", "IDLE"}))
            /\ info.offline = Cardinality(InState({"OFFLINE"}))
            /\ info.unknown = Cardinality(InState({"none"}))

\* C40, its case: the info of a list with a busy runner and one that the
\* platform does not report.
C40_Witness ==
    /\ runner_info # <<>>
    /\ runner_info[1].busy = 1
    /\ runner_info[1].online = 1
    /\ runner_info[1].unknown = 1
    /\ runner_info[1].busy_runners = runner_info[1].runners

====
